---- MODULE Spec2Model ----
(***************************************************************************)
(* Document-to-findings pipeline of ai-rag-assist: the process-document,   *)
(* process-regulation and analyze-submission edge functions over the       *)
(* submissions / submission_chunks / regulation_chunks tables.             *)
(*                                                                         *)
(* Strings are sequences of character codes (UTF-16 code units), bytes are *)
(* integers 0..255.                                                        *)
(***************************************************************************)
EXTENDS Integers, Sequences, FiniteSets, TLC

VARIABLES
    submissionStatus,   \* submissions.status of the submission
    submission_chunks,  \* rows of submission_chunks of the submission, in insert order
    regulation_chunks,  \* rows of regulation_chunks, in insert order
    storage,            \* blob store: the file of the submission, the files of the bucket
                        \* regulations by their path, the paths of the files too large
                        \* to be passed as the arguments of one call
    regulations,        \* ids of the rows of regulations
    analysis_results,   \* rows of analysis_results of the submission, in insert order
    analysis_issues,    \* rows of analysis_issues, in insert order
    run,                \* per request: the handler's position and locals
    call,               \* pure-function specifications: the arguments
    ret                 \* pure-function specifications: the returned value

vars == <<submissionStatus, submission_chunks, regulation_chunks, storage, regulations,
          analysis_results, analysis_issues, run, call, ret>>

dbVars == <<submissionStatus, submission_chunks, regulation_chunks, storage, regulations,
            analysis_results, analysis_issues>>

(***************************************************************************)
(* Bounds of the model.                                                    *)
(***************************************************************************)
MaxTextLen == 5     \* chunkText: longest input text
MaxUnit == 3        \* chunkText: largest wordsPerChunk
MaxIssues == 3      \* verdict: longest rule-based / model-based issue list
MaxRuns == 2        \* requests in flight or finished
Slack == 1          \* text lengths range up to the threshold + Slack

(***************************************************************************)
(* Characters.                                                             *)
(***************************************************************************)
SP == 32
LF == 10
NUL == 0
LetterA == 97
LetterB == 98
Hangul == 44032     \* stands for every code unit of a Korean literal
IDEOGRAPHIC_SPACE == 12288      \* U+3000, whitespace outside Latin-1

\* JavaScript \s and String.prototype.trim whitespace: WhiteSpace and LineTerminator
\* (tab, LF, VT, FF, CR, space, U+00A0, U+1680, U+2000 to U+200A, U+2028, U+2029,
\* U+202F, U+205F, U+3000, U+FEFF)
IsWS(c) ==
    \/ c \in {9, 10, 11, 12, 13, 32, 160, 5760, 8232, 8233, 8239, 8287, 12288, 65279}
    \/ (c >= 8192 /\ c <= 8202)

\* the character class [ -~]
IsPrintable(c) == c >= 32 /\ c <= 126

Rep(c, n) == [i \in 1..n |-> c]

SetMin(S) == CHOOSE x \in S : \A y \in S : x <= y
SetMax(S) == CHOOSE x \in S : \A y \in S : x >= y

Min(a, b) == IF a <= b THEN a ELSE b

\* String.prototype.trim
Trim(s) ==
    LET keep == {i \in 1..Len(s) : ~IsWS(s[i])}
    IN  IF keep = {} THEN <<>> ELSE SubSeq(s, SetMin(keep), SetMax(keep))

\* s.replace(/\s+/g, ' ')
CollapseWS(s) ==
    LET idx == [i \in 1..Len(s) |-> i]
        kept == SelectSeq(idx, LAMBDA i : ~IsWS(s[i]) \/ i = 1 \/ ~IsWS(s[i - 1]))
    IN  [k \in 1..Len(kept) |-> IF IsWS(s[kept[k]]) THEN SP ELSE s[kept[k]]]

\* s.replace(/\s+/g, ' ').trim()
NormalizeWS(s) == Trim(CollapseWS(s))

\* text.split(/\s+/): the pieces between the maximal runs of whitespace, an empty
\* piece before a leading run and after a trailing one
Split(s) ==
    LET idx == [i \in 1..Len(s) |-> i]
        starts == SelectSeq(idx, LAMBDA i : IsWS(s[i]) /\ (i = 1 \/ ~IsWS(s[i - 1])))
        ends == SelectSeq(idx, LAMBDA i : IsWS(s[i]) /\ (i = Len(s) \/ ~IsWS(s[i + 1])))
    IN  [k \in 1..(Len(starts) + 1) |->
            SubSeq(s, IF k = 1 THEN 1 ELSE ends[k - 1] + 1,
                      IF k = Len(starts) + 1 THEN Len(s) ELSE starts[k] - 1)]

\* words[a], ..., words[b] with sep between them
RECURSIVE JoinRange(_, _, _, _)
JoinRange(words, sep, a, b) ==
    IF a > b THEN <<>>
    ELSE IF a = b THEN words[a]
    ELSE LET m == (a + b) \div 2
         IN  JoinRange(words, sep, a, m) \o sep \o JoinRange(words, sep, m + 1, b)

\* words.join(sep)
Join(words, sep) == JoinRange(words, sep, 1, Len(words))

\* the slice loses its last word
Slice_Short(words, from, to) == SubSeq(words, from + 1, to - 1)

\* words.slice(from, to) with 0-based from (inclusive) and to (exclusive)
Slice(words, from, to) ==
    SubSeq(words, from + 1, IF to < Len(words) THEN to ELSE Len(words))

(***************************************************************************)
(* chunkText (process-document).                                           *)
(***************************************************************************)
\* the loop over i = 0, wordsPerChunk, 2 * wordsPerChunk, ... below words.length:
\* a chunk that is empty after trimming is not pushed
ChunkLoop(words, wordsPerChunk) ==
    LET n == (Len(words) + wordsPerChunk - 1) \div wordsPerChunk
        slices == [k \in 1..n |->
                     Join(Slice(words, (k - 1) * wordsPerChunk, k * wordsPerChunk), <<SP>>)]
    IN  SelectSeq(slices, LAMBDA chunk : Trim(chunk) # <<>>)

chunkText(text, wordsPerChunk) == ChunkLoop(Split(text), wordsPerChunk)

(***************************************************************************)
(* Verdict (analyze-submission).                                           *)
(***************************************************************************)
Severity == {"error", "warning", "info"}

RuleSeverity == {"high", "medium", "low"}

\* severityMap[issue.severity] || 'warning'
severityMap(s) ==
    CASE s = "high" -> "error"
      [] s = "medium" -> "warning"
      [] s = "low" -> "info"
      [] OTHER -> "warning"

SomeIssue(issues, sev) == \E i \in 1..Len(issues) : issues[i].severity = sev

\* a warning outranks an error
overallStatus_WarningFirst(allIssues) ==
    IF SomeIssue(allIssues, "warning") THEN "needs_review"
    ELSE IF SomeIssue(allIssues, "error") THEN "non_compliant"
    ELSE "compliant"

\* lines 526-529
overallStatus(allIssues) ==
    IF SomeIssue(allIssues, "error") THEN "non_compliant"
    ELSE IF SomeIssue(allIssues, "warning") THEN "needs_review"
    ELSE "compliant"

(***************************************************************************)
(* Text extraction (process-document, Steps 1 to 3).                       *)
(***************************************************************************)
MinTextLen == 50
WordsPerChunk == 500

\* "NO_TEXT_CONTENT"
Sentinel == <<78, 79, 95, 84, 69, 88, 84, 95, 67, 79, 78, 84, 69, 78, 84>>

ToUpper(c) == IF c >= 97 /\ c <= 122 THEN c - 32 ELSE c
ToLower(c) == IF c >= 65 /\ c <= 90 THEN c + 32 ELSE c

\* s.includes(pat)
Includes(s, pat) ==
    \E i \in 1..(Len(s) - Len(pat) + 1) :
        \A k \in 1..Len(pat) : s[i + k - 1] = pat[k]

\* /pat/i.test(s)
TestIgnoreCase(s, pat) ==
    \E i \in 1..(Len(s) - Len(pat) + 1) :
        \A k \in 1..Len(pat) : ToUpper(s[i + k - 1]) = ToUpper(pat[k])

\* latin1.match(/[ -~]{4,}/g) || []
RECURSIVE VisibleSpans(_)
VisibleSpans(s) ==
    LET pr == {i \in 1..Len(s) : IsPrintable(s[i])}
    IN  IF pr = {} THEN <<>>
        ELSE LET i == SetMin(pr)
                 stop == {j \in i..Len(s) : ~IsPrintable(s[j])}
                 j == IF stop = {} THEN Len(s) ELSE SetMin(stop) - 1
                 rest == VisibleSpans(SubSeq(s, j + 1, Len(s)))
             IN  IF j - i + 1 >= 4 THEN <<SubSeq(s, i, j)>> \o rest ELSE rest

\* Step 1: visibleSpans.join(' ').replace(/\s+/g, ' ').trim()
Stage1(bytes) == NormalizeWS(Join(VisibleSpans(bytes), <<SP>>))

\* a text of exactly the threshold still goes to the fallback
NeedsFallback_Inclusive(extractedText) == Len(extractedText) <= MinTextLen

\* Step 2 is entered: !extractedText || extractedText.length < 50
NeedsFallback(extractedText) == Len(extractedText) < MinTextLen

\* an answer of exactly the threshold is refused
AiTextAccepted_Strict(aiText) ==
    /\ aiText # <<>>
    /\ ~TestIgnoreCase(aiText, Sentinel)
    /\ Len(Trim(aiText)) > MinTextLen

\* the test on the fallback's answer, line 94
AiTextAccepted(aiText) ==
    /\ aiText # <<>>
    /\ ~TestIgnoreCase(aiText, Sentinel)
    /\ Len(Trim(aiText)) >= MinTextLen

ReasonFailed == "PDF text extraction and AI OCR failed; the file may be a scan or non-standard"
ReasonTooShort == "AI OCR extracted fewer than 50 valid characters"
ReasonDefault == "No valid text content extracted"

\* Step 2, lines 54-116: fetched tells whether the request to the gateway was sent;
\* its outcome gw is read only then. fits: String.fromCharCode(...bytes) (line 62) takes
\* the bytes of the file as arguments; beyond the engine's limit it throws RangeError
Stage2(stage1, key, fits, gw) ==
    LET failed == [extractedText |-> <<>>, hasTextContent |-> FALSE, noTextReason |-> "",
                   fetched |-> TRUE, fallback |-> "none", aiText |-> <<>>]
    IN  IF ~NeedsFallback(stage1)
        THEN [failed EXCEPT !.extractedText = stage1, !.hasTextContent = TRUE,
                            !.fetched = FALSE, !.fallback = "skipped"]
        ELSE IF ~key
        THEN [failed EXCEPT !.fetched = FALSE, !.fallback = "no_key"]
        ELSE IF ~fits
        THEN [failed EXCEPT !.fetched = FALSE, !.fallback = "too_large"]
        ELSE IF gw.kind = "throw"
        THEN [failed EXCEPT !.fallback = "threw"]
        ELSE IF gw.kind = "not_ok"
        THEN [failed EXCEPT !.fallback = "not_ok"]
        ELSE IF AiTextAccepted(gw.content)
        THEN [failed EXCEPT !.extractedText = Trim(gw.content), !.hasTextContent = TRUE,
                            !.fallback = "answered", !.aiText = gw.content]
        ELSE [failed EXCEPT !.fallback = "answered", !.aiText = gw.content]

\* without the inner try/catch an exception of fetch reaches the outer catch
EscapesStep2_Uncaught(stage1, key, gw) == Len(stage1) < MinTextLen /\ key /\ gw.kind = "throw"

\* try { ... } catch (e) { hasTextContent = false } around the gateway call:
\* no exception of Step 2 reaches the handler's outer catch
EscapesStep2(stage1, key, gw) == FALSE

\* without text content a placeholder text is kept for chunking
Stage3_Placeholder(st) ==
    IF ~st.hasTextContent
    THEN [st EXCEPT !.noTextReason = ReasonFailed, !.extractedText = Rep(LetterA, MinTextLen)]
    ELSE IF Len(st.extractedText) < MinTextLen
    THEN [st EXCEPT !.hasTextContent = FALSE, !.noTextReason = ReasonTooShort,
                    !.extractedText = <<>>]
    ELSE st

\* Step 3: final validation
Stage3(st) ==
    IF ~st.hasTextContent
    THEN [st EXCEPT !.noTextReason = ReasonFailed, !.extractedText = <<>>]
    ELSE IF Len(st.extractedText) < MinTextLen
    THEN [st EXCEPT !.hasTextContent = FALSE, !.noTextReason = ReasonTooShort,
                    !.extractedText = <<>>]
    ELSE st

\* noTextReason || 'No valid text content extracted'
ReasonOrDefault(noTextReason) == IF noTextReason # "" THEN noTextReason ELSE ReasonDefault

(***************************************************************************)
(* Requests.                                                               *)
(***************************************************************************)
Runs == 1..MaxRuns

\* a pure function that has not returned
NotReturned == [returned |-> FALSE]

\* no response sent yet
Absent == [status |-> 0]

\* the ids of regulations; a file of the bucket regulations has the regulation's id
\* for its path
RegIds == {1, 2}

\* regulationId is not given in the request
NoRegulation == 0

Idle ==
    [kind |-> "none", pc |-> "idle", isRegulation |-> FALSE, regulationId |-> NoRegulation,
     key |-> FALSE, fits |-> FALSE, stage1 |-> <<>>, fetched |-> FALSE, fallback |-> "none",
     aiText |-> <<>>,
     extractedText |-> <<>>, hasTextContent |-> FALSE, noTextReason |-> "",
     chunks |-> <<>>, wrote |-> <<>>, response |-> Absent,
     chunksError |-> FALSE, gateway |-> [kind |-> "none", content |-> <<>>], calls |-> <<>>,
     ruleBasedIssues |-> <<>>, aiIssues |-> <<>>, allIssues |-> <<>>,
     overallStatus |-> "none", analysisId |-> 0]
\* wrote: the storage writes the request has issued, with their outcome;
\* chunksError to analysisId: the inputs and locals of analyze-submission

Response500 == [status |-> 500]

\* chunks.map((content, index) => ({ ..., content, chunk_index: index }))
Rows(chunks) == [k \in 1..Len(chunks) |-> [chunk_index |-> k - 1, content |-> chunks[k]]]

\* chunks.map((content, index) => ({ regulation_id: regulationId, content, chunk_index: index }))
RegulationRows(regulationId, chunks) ==
    [k \in 1..Len(chunks) |->
        [regulation_id |-> regulationId, chunk_index |-> k - 1, content |-> chunks[k]]]

\* the rows of regulation_chunks of a regulation
ChunksOf(regulationId) ==
    SelectSeq(regulation_chunks, LAMBDA row : row.regulation_id = regulationId)

\* regulation_id REFERENCES regulations(id): a row of an unknown regulation is refused
ReferenceHolds(regulationId) == regulationId \in regulations

\* the path of the submission's file in the bucket submissions
SubmissionPath == 0

\* a file is at the path of the bucket
FileStored(isRegulation, filePath) ==
    IF isRegulation THEN filePath \in DOMAIN storage.regulations
    ELSE filePath = SubmissionPath

\* String.fromCharCode(...bytes) takes the bytes of the file as the arguments of one
\* call: it returns for a file within the engine's limit of arguments and throws
\* RangeError for a larger one
Fits(filePath) == filePath \notin storage.large

\* requests are numbered in the order they arrive
MayStart(r) == run[r].pc = "idle" /\ (IF r = 1 THEN TRUE ELSE run[r - 1].pc # "idle")

(***************************************************************************)
(* process-document.                                                       *)
(***************************************************************************)
\* lines 27-128: download, Steps 1 to 3. filePath names the file in the bucket
\* regulations when isRegulation is set; the submission has one file
PD_Request(r, filePath, isRegulation, regulationId, downloadOk, key, gw) ==
    /\ MayStart(r)
    /\ LET downloaded == downloadOk /\ FileStored(isRegulation, filePath)
           bytes == IF ~downloaded THEN <<>>
                    ELSE IF isRegulation THEN storage.regulations[filePath]
                    ELSE storage.submissions
           fits == Fits(filePath)
           s1 == Stage1(bytes)
           st == Stage3(Stage2(s1, key, fits, gw))
           started == [run[r] EXCEPT !.kind = "processDocument",
                          !.isRegulation = isRegulation, !.regulationId = regulationId,
                          !.key = key, !.fits = fits]
       IN  IF ~downloaded
           THEN run' = [run EXCEPT ![r] = [started EXCEPT
                            !.pc = "done", !.response = Response500]]
           ELSE IF EscapesStep2(s1, key, gw)
           THEN run' = [run EXCEPT ![r] = [started EXCEPT !.stage1 = s1,
                            !.fetched = st.fetched, !.fallback = st.fallback,
                            !.pc = "done", !.response = Response500]]
           ELSE run' = [run EXCEPT ![r] = [started EXCEPT
                            !.stage1 = s1, !.fetched = st.fetched,
                            !.fallback = st.fallback, !.aiText = st.aiText,
                            !.extractedText = st.extractedText,
                            !.hasTextContent = st.hasTextContent,
                            !.noTextReason = st.noTextReason,
                            !.pc = IF Len(st.extractedText) < MinTextLen
                                   THEN "abort" ELSE "chunk"]]
    /\ UNCHANGED <<dbVars, call, ret>>

\* the failure response leaves out the reason
PD_Abort_NoReason(r, updateOk) ==
    /\ run[r].kind = "processDocument" /\ run[r].pc = "abort"
    /\ LET writes == ~run[r].isRegulation
       IN  /\ submissionStatus' = IF writes /\ updateOk THEN "failed" ELSE submissionStatus
           /\ run' = [run EXCEPT ![r] = [@ EXCEPT
                        !.wrote = IF writes
                                  THEN Append(@, [status |-> "failed", ok |-> updateOk])
                                  ELSE @,
                        !.pc = "done",
                        !.response = [status |-> 400, success |-> FALSE,
                                      chunksProcessed |-> 0, hasTextContent |-> FALSE,
                                      reason |-> ""]]]
    /\ UNCHANGED <<submission_chunks, regulation_chunks, storage, regulations,
                   analysis_results, analysis_issues, call, ret>>

\* lines 130-158: no valid text content
PD_Abort(r, updateOk) ==
    /\ run[r].kind = "processDocument" /\ run[r].pc = "abort"
    /\ LET writes == ~run[r].isRegulation
       IN  /\ submissionStatus' = IF writes /\ updateOk THEN "failed" ELSE submissionStatus
           /\ run' = [run EXCEPT ![r] = [@ EXCEPT
                        !.wrote = IF writes
                                  THEN Append(@, [status |-> "failed", ok |-> updateOk])
                                  ELSE @,
                        !.pc = "done",
                        !.response = [status |-> 400, success |-> FALSE,
                                      chunksProcessed |-> 0, hasTextContent |-> FALSE,
                                      reason |-> ReasonOrDefault(run[r].noTextReason)]]]
    /\ UNCHANGED <<submission_chunks, regulation_chunks, storage, regulations,
                   analysis_results, analysis_issues, call, ret>>

\* lines 162-198: chunk and insert
PD_Insert(r, insertOk) ==
    /\ run[r].kind = "processDocument" /\ run[r].pc = "chunk"
    /\ LET chunks == chunkText(run[r].extractedText, WordsPerChunk)
           toRegulation == run[r].isRegulation /\ run[r].regulationId # NoRegulation
           stored == insertOk /\ (toRegulation => ReferenceHolds(run[r].regulationId))
       IN  /\ regulation_chunks' =
                 IF toRegulation /\ stored
                 THEN regulation_chunks \o RegulationRows(run[r].regulationId, chunks)
                 ELSE regulation_chunks
           /\ submission_chunks' = IF ~toRegulation /\ stored
                                   THEN submission_chunks \o Rows(chunks)
                                   ELSE submission_chunks
           /\ run' = [run EXCEPT ![r] = [@ EXCEPT !.chunks = chunks,
                        !.pc = IF stored /\ ~toRegulation THEN "update" ELSE "done",
                        !.response = IF ~stored THEN Response500
                                     ELSE IF toRegulation
                                     THEN [status |-> 200, success |-> TRUE,
                                           chunksProcessed |-> Len(chunks)]
                                     ELSE Absent]]
    /\ UNCHANGED <<submissionStatus, storage, regulations, analysis_results, analysis_issues,
                 call, ret>>

\* lines 200-220: status update and response
PD_Update(r, updateOk) ==
    /\ run[r].kind = "processDocument" /\ run[r].pc = "update"
    /\ submissionStatus' = IF updateOk THEN "processing" ELSE submissionStatus
    /\ run' = [run EXCEPT ![r] = [@ EXCEPT !.wrote = Append(@, [status |-> "processing", ok |-> updateOk]),
                    !.pc = "done",
                    !.response = [status |-> 200, success |-> TRUE,
                                  chunksProcessed |-> Len(run[r].chunks)]]]
    /\ UNCHANGED <<submission_chunks, regulation_chunks, storage, regulations,
                   analysis_results, analysis_issues, call, ret>>

(***************************************************************************)
(* process-regulation.                                                     *)
(***************************************************************************)
chunkSize == 1000

\* the regulations row of the regulation
regulation == [title |-> <<LetterA>>, category |-> <<LetterB>>]

\* noTextReason of process-regulation (a Korean literal of 56 code units)
RegNoTextReason == Rep(Hangul, 56)

\* `[...] ${regulation.title}\n\n${noTextReason}\n\n...: ... ${regulation.category} ...`
PlaceholderText ==
    Rep(Hangul, 8) \o <<SP>> \o regulation.title \o <<LF, LF>> \o RegNoTextReason
    \o <<LF, LF>> \o Rep(Hangul, 13) \o regulation.category \o Rep(Hangul, 39)

\* for (let i = 0; i < textContent.length; i += chunkSize) chunks.push(substring(i, i + chunkSize))
FixedChunks(textContent) ==
    [k \in 1..((Len(textContent) + chunkSize - 1) \div chunkSize) |->
        SubSeq(textContent, (k - 1) * chunkSize + 1,
               IF k * chunkSize < Len(textContent) THEN k * chunkSize ELSE Len(textContent))]

\* hasTextContent ? content : `${content}\n\n[...: ${noTextReason}]`
RegContent(content, hasTextContent) ==
    IF hasTextContent THEN content
    ELSE content \o <<LF, LF, 91>> \o Rep(Hangul, 2) \o <<58, SP>> \o RegNoTextReason \o <<93>>

\* lines 24-37: the request reads the regulations row; queryOk: the select returns
\* without an error. Without the row the request ends with the 500 response
PR_Request(r, regulationId, queryOk) ==
    /\ MayStart(r)
    /\ run' = [run EXCEPT ![r] =
                  IF queryOk /\ regulationId \in regulations
                  THEN [@ EXCEPT !.kind = "processRegulation",
                                 !.regulationId = regulationId, !.pc = "download"]
                  ELSE [@ EXCEPT !.kind = "processRegulation",
                                 !.regulationId = regulationId,
                                 !.pc = "done", !.response = Response500]]
    /\ UNCHANGED <<dbVars, call, ret>>

\* lines 39-119: download of the file at the path the row names, base64 of the file,
\* extraction by the gateway, chunking. downloadOk: the download returns without an
\* error; the file is read as the bucket holds it now, after whatever was written since
\* the row was read. Line 52, String.fromCharCode(...new Uint8Array(arrayBuffer)), is
\* outside any inner try: for a file that does not fit the request ends before the key is
\* read and the gateway called. The file of a regulation is at the path of the
\* regulation's id
PR_Download(r, downloadOk, key, gw) ==
    /\ run[r].kind = "processRegulation" /\ run[r].pc = "download"
    /\ \E regulationId \in {run[r].regulationId} :
       IF \/ ~(downloadOk /\ FileStored(TRUE, regulationId))
          \/ ~Fits(regulationId) \/ ~key \/ gw.kind # "ok"
       THEN run' = [run EXCEPT ![r] = [@ EXCEPT !.key = key,
                        !.fits = Fits(regulationId),
                        !.pc = "done", !.response = Response500]]
       ELSE LET noText == Includes(gw.content, Sentinel)
                textContent == IF noText THEN PlaceholderText ELSE gw.content
            IN  run' = [run EXCEPT ![r] = [@ EXCEPT !.key = key, !.fits = TRUE,
                        !.aiText = gw.content,
                        !.extractedText = textContent,
                        !.hasTextContent = ~noText,
                        !.chunks = FixedChunks(textContent),
                        !.pc = "delete"]]
    /\ UNCHANGED <<dbVars, call, ret>>

\* lines 121-125: delete the chunks of the regulation; the result of the call is not read
PR_Delete(r, deleteOk) ==
    /\ run[r].kind = "processRegulation" /\ run[r].pc = "delete"
    /\ regulation_chunks' =
          IF deleteOk
          THEN SelectSeq(regulation_chunks,
                         LAMBDA row : row.regulation_id # run[r].regulationId)
          ELSE regulation_chunks
    /\ run' = [run EXCEPT ![r] = [@ EXCEPT !.pc = "insert",
                    !.wrote = Append(@, [status |-> "delete", ok |-> deleteOk])]]
    /\ UNCHANGED <<submissionStatus, submission_chunks, storage, regulations,
                   analysis_results, analysis_issues, call, ret>>

\* lines 127-152: store chunks and respond. insertOk: the insert returns without an error
\* of its own; rows of a regulation that is no longer registered are refused by the
\* reference of regulation_id, an insert of no rows (chunks = [], the gateway answered
\* with an empty text) has no row to refuse
PR_Insert(r, insertOk) ==
    /\ run[r].kind = "processRegulation" /\ run[r].pc = "insert"
    /\ LET rows == RegulationRows(run[r].regulationId,
                                   [k \in 1..Len(run[r].chunks) |->
                                       RegContent(run[r].chunks[k], run[r].hasTextContent)])
           stored == insertOk /\ (rows = <<>> \/ ReferenceHolds(run[r].regulationId))
       IN  /\ regulation_chunks' = IF stored THEN regulation_chunks \o rows
                                   ELSE regulation_chunks
           /\ run' = [run EXCEPT ![r] = [@ EXCEPT !.pc = "done",
                        !.wrote = Append(@, [status |-> "insert", ok |-> stored]),
                        !.response = IF stored
                                     THEN [status |-> 200, success |-> TRUE,
                                           chunks |-> Len(run[r].chunks),
                                           hasTextContent |-> run[r].hasTextContent]
                                     ELSE Response500]]
    /\ UNCHANGED <<submissionStatus, submission_chunks, storage, regulations,
                   analysis_results, analysis_issues, call, ret>>

(***************************************************************************)
(* The page of the regulations: handleSubmit registers a regulation,       *)
(* handleDelete removes one. A call that returns before its first storage  *)
(* call (no file selected, a form that fails validation, a confirmation    *)
(* refused) changes nothing and is not an action.                          *)
(***************************************************************************)
\* the file a regulation is registered with
RegulationFile == Rep(LetterB, MinTextLen)

\* handleSubmit, lines 256-279: the file goes to a path of the bucket regulations that
\* no file has yet (the path carries Date.now()); an upload error ends the call
handleSubmit(r, id, large, uploadOk) ==
    /\ MayStart(r)
    /\ id \notin regulations /\ ~FileStored(TRUE, id)
    /\ storage' = IF uploadOk
                  THEN [storage EXCEPT
                           !.regulations = [p \in DOMAIN @ \cup {id} |->
                                               IF p = id THEN RegulationFile ELSE @[p]],
                           !.large = IF large THEN @ \cup {id} ELSE @]
                  ELSE storage
    /\ run' = [run EXCEPT ![r] = [@ EXCEPT !.kind = "handleSubmit", !.regulationId = id,
                    !.pc = IF uploadOk THEN "insertRow" ELSE "done",
                    !.wrote = Append(@, [status |-> "upload", ok |-> uploadOk])]]
    /\ UNCHANGED <<submissionStatus, submission_chunks, regulation_chunks, regulations,
                   analysis_results, analysis_issues, call, ret>>

\* handleSubmit, lines 281-294: the row of regulations; after an error the file stays
handleSubmit_Insert(r, insertOk) ==
    /\ run[r].kind = "handleSubmit" /\ run[r].pc = "insertRow"
    /\ regulations' = IF insertOk THEN regulations \cup {run[r].regulationId}
                      ELSE regulations
    /\ run' = [run EXCEPT ![r] = [@ EXCEPT !.pc = "done",
                    !.wrote = Append(@, [status |-> "insertRow", ok |-> insertOk])]]
    /\ UNCHANGED <<submissionStatus, submission_chunks, regulation_chunks, storage,
                   analysis_results, analysis_issues, call, ret>>

\* handleDelete, lines 325-339: the file of a listed regulation is removed from the
\* bucket; a storage error ends the call
handleDelete(r, id, removeOk) ==
    /\ MayStart(r)
    /\ id \in regulations
    /\ storage' = IF removeOk
                  THEN [storage EXCEPT
                           !.regulations = [p \in DOMAIN @ \ {id} |-> @[p]],
                           !.large = @ \ {id}]
                  ELSE storage
    /\ run' = [run EXCEPT ![r] = [@ EXCEPT !.kind = "handleDelete", !.regulationId = id,
                    !.pc = IF removeOk THEN "deleteRow" ELSE "done",
                    !.wrote = Append(@, [status |-> "remove", ok |-> removeOk])]]
    /\ UNCHANGED <<submissionStatus, submission_chunks, regulation_chunks, regulations,
                   analysis_results, analysis_issues, call, ret>>

\* handleDelete, lines 341-358: the row of regulations is deleted and, by ON DELETE
\* CASCADE of regulation_chunks.regulation_id, every chunk of the regulation with it;
\* an error is only shown
handleDelete_Row(r, deleteOk) ==
    /\ run[r].kind = "handleDelete" /\ run[r].pc = "deleteRow"
    /\ regulations' = IF deleteOk THEN regulations \ {run[r].regulationId}
                      ELSE regulations
    /\ regulation_chunks' =
          IF deleteOk
          THEN SelectSeq(regulation_chunks,
                         LAMBDA row : row.regulation_id # run[r].regulationId)
          ELSE regulation_chunks
    /\ run' = [run EXCEPT ![r] = [@ EXCEPT !.pc = "done",
                    !.wrote = Append(@, [status |-> "deleteRow", ok |-> deleteOk])]]
    /\ UNCHANGED <<submissionStatus, submission_chunks, storage,
                   analysis_results, analysis_issues, call, ret>>

(***************************************************************************)
(* The environment: files in the blob store and answers of the gateway.    *)
(***************************************************************************)
\* lengths around the threshold
NearThreshold == (MinTextLen - 1)..(MinTextLen + Slack - 1)

\* files by the text Step 1 recovers from them: nothing, one span, two spans,
\* a span too short to count, spans with inner and trailing blanks
Files ==
    {<<>>, Rep(NUL, 4)}
    \cup {Rep(LetterA, n) : n \in NearThreshold}
    \cup {Rep(LetterA, 24) \o <<NUL>> \o Rep(LetterB, n - 25) : n \in NearThreshold}
    \cup {Rep(LetterA, n) \o <<NUL>> \o Rep(LetterB, 3) : n \in NearThreshold}
    \cup {Rep(LetterA, 10) \o Rep(SP, 3) \o Rep(LetterB, n - 11) \o <<SP>> : n \in NearThreshold}

\* a file without and a file with enough literal text
FewFiles == {Rep(NUL, 4), Rep(LetterA, 24) \o <<NUL>> \o Rep(LetterB, MinTextLen - 25)}

\* what the fallback of process-document may answer
AiTexts ==
    {<<>>, Sentinel, [i \in 1..Len(Sentinel) |-> ToLower(Sentinel[i])] \o Rep(LetterA, MinTextLen)}
    \cup {Rep(LetterA, n) : n \in NearThreshold}
    \cup {<<SP>> \o Rep(LetterA, 20) \o <<SP>> \o Rep(LetterB, n - 21) \o <<LF>> : n \in NearThreshold}
    \cup {<<IDEOGRAPHIC_SPACE>> \o Rep(LetterA, MinTextLen - 1)}

FewAiTexts ==
    {Sentinel, <<SP>> \o Rep(LetterA, MinTextLen - 1) \o <<LF>>,
     <<SP>> \o Rep(LetterB, MinTextLen) \o <<LF>>}

\* what the gateway may answer to process-regulation
RegTexts == {<<>>, Rep(LetterA, 1), Rep(LetterB, chunkSize + Slack), <<LetterA>> \o Sentinel}

GatewayFailures == {[kind |-> "throw", content |-> <<>>], [kind |-> "not_ok", content |-> <<>>]}

Gateway(texts) == GatewayFailures \cup {[kind |-> "ok", content |-> t] : t \in texts}

(***************************************************************************)
(* The pipeline: requests to the two ingestion functions, in any           *)
(* interleaving of their storage calls.                                    *)
(***************************************************************************)
Init ==
    /\ submissionStatus = "pending"
    /\ submission_chunks = <<>>
    /\ regulations \in {{1}, RegIds}
    /\ regulation_chunks = RegulationRows(2, IF 2 \in regulations THEN <<Rep(LetterA, 1)>>
                                             ELSE <<>>)
    /\ storage \in [submissions : FewFiles,
                    regulations : {[id \in regulations |-> RegulationFile]},
                    large : {{}, {SubmissionPath, 1}}]
    /\ analysis_results = <<>>
    /\ analysis_issues = <<>>
    /\ run = [r \in Runs |-> Idle]
    /\ call = <<>>
    /\ ret = NotReturned

Next ==
    \/ \E r \in Runs, regulationId \in {NoRegulation, 1}, downloadOk \in BOOLEAN,
          key \in BOOLEAN, gw \in Gateway(FewAiTexts) :
            PD_Request(r, regulationId, regulationId # NoRegulation, regulationId,
                       downloadOk, key, gw)
    \/ \E r \in Runs, updateOk \in BOOLEAN : PD_Abort(r, updateOk)
    \/ \E r \in Runs, insertOk \in BOOLEAN : PD_Insert(r, insertOk)
    \/ \E r \in Runs, updateOk \in BOOLEAN : PD_Update(r, updateOk)
    \/ \E r \in Runs, regulationId \in RegIds, queryOk \in BOOLEAN :
            PR_Request(r, regulationId, queryOk)
    \/ \E r \in Runs, downloadOk \in BOOLEAN, key \in BOOLEAN, gw \in Gateway(RegTexts) :
            PR_Download(r, downloadOk, key, gw)
    \/ \E r \in Runs, deleteOk \in BOOLEAN : PR_Delete(r, deleteOk)
    \/ \E r \in Runs, insertOk \in BOOLEAN : PR_Insert(r, insertOk)
    \/ \E r \in Runs, id \in RegIds, large \in BOOLEAN, uploadOk \in BOOLEAN :
          handleSubmit(r, id, large, uploadOk)
    \/ \E r \in Runs, insertOk \in BOOLEAN : handleSubmit_Insert(r, insertOk)
    \/ \E r \in Runs, id \in RegIds, removeOk \in BOOLEAN : handleDelete(r, id, removeOk)
    \/ \E r \in Runs, deleteOk \in BOOLEAN : handleDelete_Row(r, deleteOk)

Spec == Init /\ [][Next]_vars

(***************************************************************************)
(* One process-document request, over every file and every answer of the   *)
(* fallback.                                                               *)
(***************************************************************************)
InitDoc ==
    /\ submissionStatus = "pending"
    /\ submission_chunks = <<>>
    /\ regulations = {1}
    /\ regulation_chunks = <<>>
    /\ \E file \in Files :
          storage \in [submissions : {file}, regulations : {[id \in {1} |-> file]},
                       large : {{}, {SubmissionPath, 1}}]
    /\ analysis_results = <<>>
    /\ analysis_issues = <<>>
    /\ run = [r \in Runs |-> Idle]
    /\ call = <<>>
    /\ ret = NotReturned

NextDoc ==
    \/ \E isRegulation \in BOOLEAN, regulationId \in {NoRegulation, 1},
          downloadOk \in BOOLEAN, key \in BOOLEAN, gw \in Gateway(AiTexts) :
            PD_Request(1, IF isRegulation THEN 1 ELSE SubmissionPath, isRegulation,
                       regulationId, downloadOk, key, gw)
    \/ \E updateOk \in BOOLEAN : PD_Abort(1, updateOk)
    \/ \E insertOk \in BOOLEAN : PD_Insert(1, insertOk)
    \/ \E updateOk \in BOOLEAN : PD_Update(1, updateOk)

SpecDoc == InitDoc /\ [][NextDoc]_vars

(***************************************************************************)
(* chunkText alone, over every short text.                                 *)
(***************************************************************************)
Alphabet == {LetterA, LetterB, SP, IDEOGRAPHIC_SPACE}

Texts == UNION {[1..n -> Alphabet] : n \in 0..MaxTextLen}

InitPure ==
    /\ submissionStatus = "pending"
    /\ submission_chunks = <<>>
    /\ regulation_chunks = <<>>
    /\ storage = [submissions |-> <<>>, regulations |-> <<>>, large |-> {}]
    /\ regulations = {}
    /\ analysis_results = <<>>
    /\ analysis_issues = <<>>
    /\ run = [r \in Runs |-> Idle]
    /\ ret = NotReturned

InitChunk ==
    /\ InitPure
    /\ call \in [text : Texts, wordsPerChunk : 1..MaxUnit]

ChunkCall ==
    /\ ~ret.returned
    /\ ret' = [returned |-> TRUE, chunks |-> chunkText(call.text, call.wordsPerChunk)]
    /\ UNCHANGED <<dbVars, run, call>>

NextChunk == ChunkCall

SpecChunk == InitChunk /\ [][NextChunk]_vars

(***************************************************************************)
(* The verdict of analyze-submission alone, over every short issue list.   *)
(***************************************************************************)
SeqsUpTo(S, n) == UNION {[1..k -> S] : k \in 0..n}

\* the findings of the rule checks, by severity
RuleIssueLists == SeqsUpTo([severity : RuleSeverity], MaxIssues)

\* JSON.parse(...) as AnalysisIssue[] does not check the severity
AiIssueLists == SeqsUpTo([severity : Severity \cup {"critical"}], MaxIssues)

\* runRuleBasedFiltering: ruleIssues.map(issue => ({ severity: severityMap[...] || 'warning', ... }))
ToAnalysisIssues(ruleIssues) ==
    [k \in 1..Len(ruleIssues) |-> [severity |-> severityMap(ruleIssues[k].severity)]]

InitVerdict ==
    /\ InitPure
    /\ call \in [ruleIssues : RuleIssueLists, aiIssues : AiIssueLists]

\* lines 522-529
VerdictCall ==
    /\ ~ret.returned
    /\ LET allIssues == ToAnalysisIssues(call.ruleIssues) \o call.aiIssues
       IN  ret' = [returned |-> TRUE, allIssues |-> allIssues,
                   overallStatus |-> overallStatus(allIssues)]
    /\ UNCHANGED <<dbVars, run, call>>

NextVerdict == VerdictCall

SpecVerdict == InitVerdict /\ [][NextVerdict]_vars

(***************************************************************************)
(* IEEE 754 double arithmetic of the rule engine (parseFloat, +, <, >,     *)
(* toFixed), on non-negative values. A natural number is the sequence of   *)
(* its digits in base 2^15, least significant first, without leading       *)
(* zeros; a double is man * 2^exp with man of at most 53 bits.             *)
(***************************************************************************)
MantissaBits == 53
LimbBits == 15
LimbBase == 32768

RECURSIVE Pow10(_)
Pow10(k) == IF k = 0 THEN 1 ELSE 10 * Pow10(k - 1)

RECURSIVE NFromInt(_)
NFromInt(n) == IF n = 0 THEN <<>> ELSE <<n % LimbBase>> \o NFromInt(n \div LimbBase)

RECURSIVE NToInt(_)
NToInt(b) == IF b = <<>> THEN 0 ELSE b[1] + LimbBase * NToInt(Tail(b))

NNorm(b) ==
    LET nz == {i \in 1..Len(b) : b[i] # 0}
    IN  IF nz = {} THEN <<>> ELSE SubSeq(b, 1, SetMax(nz))

\* a + b + c
RECURSIVE NAddC(_, _, _)
NAddC(a, b, c) ==
    IF a = <<>> /\ b = <<>> THEN NFromInt(c)
    ELSE LET x == IF a = <<>> THEN 0 ELSE a[1]
             y == IF b = <<>> THEN 0 ELSE b[1]
             t == x + y + c
         IN  <<t % LimbBase>> \o NAddC(IF a = <<>> THEN a ELSE Tail(a),
                                       IF b = <<>> THEN b ELSE Tail(b), t \div LimbBase)

\* b * m + c for m, c below 2^15
RECURSIVE NMulSmall(_, _, _)
NMulSmall(b, m, c) ==
    IF b = <<>> THEN NFromInt(c)
    ELSE LET t == b[1] * m + c
         IN  <<t % LimbBase>> \o NMulSmall(Tail(b), m, t \div LimbBase)

\* b * 2^n
NShl(b, n) ==
    IF b = <<>> THEN <<>>
    ELSE Rep(0, n \div LimbBits) \o NMulSmall(b, 2 ^ (n % LimbBits), 0)

\* floor(b / d) and b mod d for d below 2^16, by long division from the top digit
RECURSIVE NDivRem(_, _)
NDivRem(b, d) ==
    IF b = <<>> THEN [quot |-> <<>>, rem |-> 0]
    ELSE LET hi == NDivRem(Tail(b), d)
             t == hi.rem * LimbBase + b[1]
         IN  [quot |-> NNorm(<<t \div d>> \o hi.quot), rem |-> t % d]

\* floor(b / 2^n), and whether a non-zero bit was dropped
NShr(b, n) ==
    LET w == Min(n \div LimbBits, Len(b))
        d == NDivRem(SubSeq(b, w + 1, Len(b)), 2 ^ (n % LimbBits))
    IN  [quot |-> d.quot, inexact |-> d.rem # 0 \/ \E i \in 1..w : b[i] # 0]

\* a < b
NLess(a, b) ==
    \/ Len(a) < Len(b)
    \/ /\ Len(a) = Len(b)
       /\ \E i \in 1..Len(a) :
            /\ a[i] < b[i]
            /\ \A j \in (i + 1)..Len(a) : a[j] = b[j]

\* the number of bits of b
NBitLen(b) ==
    IF b = <<>> THEN 0
    ELSE LimbBits * (Len(b) - 1)
         + (CHOOSE k \in 1..LimbBits : 2 ^ (k - 1) <= b[Len(b)] /\ b[Len(b)] < 2 ^ k)

\* round to nearest, ties to even: the double nearest to q * 2^exp (plus a non-zero
\* fraction of the last bit of q when sticky)
RoundToDouble(q, sticky, exp) ==
    IF NBitLen(q) <= MantissaBits THEN [man |-> q, exp |-> exp]
    ELSE LET p == NBitLen(q) - MantissaBits
             s == NShr(q, p - 1)
             guard == s.quot[1] % 2
             kept == NShr(s.quot, 1).quot
             up == guard = 1 /\ (sticky \/ s.inexact \/ kept[1] % 2 = 1)
         IN  [man |-> IF up THEN NAddC(kept, <<>>, 1) ELSE kept, exp |-> exp + p]

Zero == [man |-> <<>>, exp |-> 0]

\* the double n * 2^exp of a small natural n
Dyadic(n, exp) == [man |-> NFromInt(n), exp |-> exp]

\* x + y
FAdd(x, y) ==
    LET e == Min(x.exp, y.exp)
    IN  RoundToDouble(NAddC(NShl(x.man, x.exp - e), NShl(y.man, y.exp - e), 0), FALSE, e)

\* x < y
FLess(x, y) ==
    LET e == Min(x.exp, y.exp)
    IN  NLess(NShl(x.man, x.exp - e), NShl(y.man, y.exp - e))

\* the value of a decimal digit string
RECURSIVE DigitsValue(_)
DigitsValue(ds) ==
    IF ds = <<>> THEN 0 ELSE 10 * DigitsValue(SubSeq(ds, 1, Len(ds) - 1)) + (ds[Len(ds)] - 48)

GuardShift == 90

\* parseFloat of "<int>" or "<int>.<frac>": the double nearest to the decimal value
parseFloat(int, frac) ==
    LET n == DigitsValue(int \o frac)
        d == NDivRem(NShl(NFromInt(n), GuardShift), Pow10(Len(frac)))
    IN  IF n = 0 THEN Zero ELSE RoundToDouble(d.quot, d.rem # 0, -GuardShift)

RECURSIVE DigitsOf(_)
DigitsOf(n) == IF n < 10 THEN <<48 + n>> ELSE DigitsOf(n \div 10) \o <<48 + (n % 10)>>

\* x.toFixed(1): n / 10 with the integer n nearest to 10 x, the larger one on a tie
toFixed1(x) ==
    LET n == IF x.exp >= 0 THEN 10 * NToInt(NShl(x.man, x.exp))
             ELSE NToInt(NShr(NAddC(NMulSmall(x.man, 20, 0), NShl(<<1>>, -x.exp), 0),
                              1 - x.exp).quot)
    IN  DigitsOf(n \div 10) \o <<46>> \o DigitsOf(n % 10)

(***************************************************************************)
(* The rule engine of analyze-submission (lines 57-286). The keywords are  *)
(* the UTF-16 code units of the literals of the source.                    *)
(***************************************************************************)
KwSterile == <<47736, 44512>>    \* sterile
KwNonSterile1 == <<48708, 47736, 44512>>    \* non-sterile (bi-)
KwNonSterile2 == <<47924, 47736, 44512>>    \* non-sterile (mu-)
KwUnit == <<45800, 50948>>    \* unit
KwMm == <<109, 109>>    \* "mm"
KwCm == <<99, 109>>    \* "cm"
KwLatex == <<108, 97, 116, 101, 120>>    \* "latex"
KwLatexKo == <<46972, 53581, 49828>>    \* latex (Korean)
KwRubber == <<114, 117, 98, 98, 101, 114>>    \* "rubber"
KwAllergy == <<50508, 47112, 47476, 44592>>    \* allergy
KwMenthol == <<109, 101, 110, 116, 104, 111, 108>>    \* "menthol"
KwMentholKo == <<47704, 49556>>    \* menthol (Korean)
KwCas == <<67, 65, 83>>    \* "CAS"
KwNumber == <<48264, 54840>>    \* number
KwContact == <<51217, 52489>>    \* contact
KwSkin == <<54588, 48512>>    \* skin
KwBodyContact == <<51064, 52404, 51217, 52489>>    \* body contact
KwVelcroKo1 == <<48296, 53356, 47196>>    \* velcro (Korean)
KwVelcroKo2 == <<48184, 53356, 47196>>    \* velcro (Korean, variant)
KwVelcro == <<86, 101, 108, 99, 114, 111>>    \* "Velcro"
Kw3M == <<51, 77>>    \* "3M"
KwGenericName == <<51068, 48152, 47749>>    \* generic name
KwChemicalName == <<54868, 54617, 47749>>    \* chemical name
KwPigment == <<112, 105, 103, 109, 101, 110, 116>>    \* "pigment"
KwDye == <<100, 121, 101>>    \* "dye"
KwColorant == <<49353, 49548>>    \* colorant
KwTitanium == <<84, 105, 116, 97, 110, 105, 117, 109>>    \* "Titanium"
KwDioxide == <<68, 105, 111, 120, 105, 100, 101>>    \* "Dioxide"
KwKS == <<75, 83>>    \* "KS"
KwASTM == <<65, 83, 84, 77>>    \* "ASTM"
KwISO == <<73, 83, 79>>    \* "ISO"
KwOwnStandard == <<51088, 49324, 44508, 44201>>    \* own standard
KwConfirm == <<54869, 51064>>    \* confirm
KwSingleUse == <<51068, 54924, 50857>>    \* single use
KwReuse == <<51116, 49324, 50857>>    \* reuse
KwForbidden == <<44552, 51648>>    \* forbidden
KwProtector == <<48372, 54840, 45824>>    \* protector
\* the twelve additive purposes (colorant, UV blocker, stabilizer, emulsifier, ...)
KwPurposes ==
    {<<52265, 49353, 51228>>,
     <<51088, 50808, 49440, 52264, 45800, 51228>>,
     <<50504, 51221, 54868, 51228>>,
     <<50976, 54868, 51228>>,
     <<48516, 49328, 51228>>,
     <<48372, 51316, 51228>>,
     <<44032, 44368, 51228>>,
     <<44032, 49548, 51228>>,
     <<44060, 49884, 51228>>,
     <<50980, 54876, 51228>>,
     <<52489, 47588, 51228>>,
     <<54637, 49328, 54868, 51228>>}

IsDigit(c) == c >= 48 /\ c <= 57

\* \w
IsWord(c) == IsDigit(c) \/ (c >= 65 /\ c <= 90) \/ (c >= 97 /\ c <= 122) \/ c = 95

\* the characters `.` of a regular expression does not match
IsLineTerminator(c) == c \in {10, 13, 8232, 8233}

\* pat is read at position p of s
At(s, p, pat) ==
    p + Len(pat) - 1 <= Len(s) /\ \A k \in 1..Len(pat) : s[p + k - 1] = pat[k]

\* the same under the flag i
AtI(s, p, pat) ==
    p + Len(pat) - 1 <= Len(s)
    /\ \A k \in 1..Len(pat) : ToUpper(s[p + k - 1]) = ToUpper(pat[k])

\* the positions \s* read from p may end at
AfterWS(s, p) == {q \in p..(Len(s) + 1) : \A k \in p..(q - 1) : IsWS(s[k])}

\* /first\s*second/ and /first\s*second/i
TestSpaced(s, first, second) ==
    \E p \in 1..Len(s) :
        At(s, p, first) /\ \E q \in AfterWS(s, p + Len(first)) : At(s, q, second)

TestSpacedI(s, first, second) ==
    \E p \in 1..Len(s) :
        AtI(s, p, first) /\ \E q \in AfterWS(s, p + Len(first)) : AtI(s, q, second)

Finding(check, severity, detail) ==
    [check |-> check, severity |-> severity, detail |-> detail]

\* lines 58-75
ruleSterileConflict(text) ==
    LET hasSterile == Includes(text, KwSterile)
        hasNonSterile == Includes(text, KwNonSterile1) \/ Includes(text, KwNonSterile2)
    IN  IF text = <<>> THEN <<>>
        ELSE IF hasSterile /\ hasNonSterile
        THEN <<Finding("sterile conflict", "high", <<>>)>>
        ELSE <<>>

\* /<unit>\s*[:<fullwidth colon>]?\s*mm/i
HeaderMm(text) ==
    \E p \in 1..Len(text) :
        /\ AtI(text, p, KwUnit)
        /\ \E q \in AfterWS(text, p + Len(KwUnit)) :
            \E q2 \in {q} \cup (IF q <= Len(text) /\ text[q] \in {58, 65306}
                                THEN {q + 1} ELSE {}) :
                \E q3 \in AfterWS(text, q2) : AtI(text, q3, KwMm)

\* /\d+(\.\d+)?\s*(cm|<square cm>|m(?!m))/
HasCmOrM(text) ==
    \E p \in 1..Len(text) :
        /\ IsDigit(text[p])
        /\ \E q \in AfterWS(text, p + 1) :
            \/ At(text, q, KwCm)
            \/ q <= Len(text) /\ text[q] = 13213
            \/ q <= Len(text) /\ text[q] = 109 /\ ~(q + 1 <= Len(text) /\ text[q + 1] = 109)

\* lines 77-94
ruleUnits(text) ==
    IF text = <<>> THEN <<>>
    ELSE IF HeaderMm(text) /\ HasCmOrM(text)
    THEN <<Finding("unit mismatch", "medium", <<>>)>>
    ELSE <<>>

\* the last index of the run of digits that starts at p
DigitRunEnd(s, p) ==
    SetMin({q \in p..(Len(s) + 1) : q > Len(s) \/ ~IsDigit(s[q])}) - 1

\* the index of the '%' that follows \s* read from p, or 0
PercentSignAfter(s, p) ==
    LET q == SetMax(AfterWS(s, p))
    IN  IF q <= Len(s) /\ s[q] = 37 THEN q ELSE 0

\* /(\d{1,3}(?:\.\d+)?)\s*%/ read at p: the capture and the index of the last character,
\* or last = 0 when the expression does not match at p
PercentAt(s, p) ==
    LET none == [int |-> <<>>, frac |-> <<>>, last |-> 0]
        e1 == DigitRunEnd(s, p)
        hasFrac == e1 + 2 <= Len(s) /\ s[e1 + 1] = 46 /\ IsDigit(s[e1 + 2])
        e2 == DigitRunEnd(s, e1 + 2)
    IN  IF ~IsDigit(s[p]) \/ e1 - p + 1 > 3 THEN none
        ELSE IF hasFrac /\ PercentSignAfter(s, e2 + 1) # 0
        THEN [int |-> SubSeq(s, p, e1), frac |-> SubSeq(s, e1 + 2, e2),
              last |-> PercentSignAfter(s, e2 + 1)]
        ELSE IF PercentSignAfter(s, e1 + 1) # 0
        THEN [int |-> SubSeq(s, p, e1), frac |-> <<>>, last |-> PercentSignAfter(s, e1 + 1)]
        ELSE none

\* Array.from(materialText.matchAll(...)).map(m => parseFloat(m[1])), from position p on
RECURSIVE PercentagesFrom(_, _)
PercentagesFrom(s, p) ==
    LET starts == {q \in p..Len(s) : PercentAt(s, q).last # 0}
        m == PercentAt(s, SetMin(starts))
    IN  IF starts = {} THEN <<>>
        ELSE <<parseFloat(m.int, m.frac)>> \o PercentagesFrom(s, m.last + 1)

\* percentages.reduce((a, b) => a + b, 0)
RECURSIVE SumFrom(_, _)
SumFrom(acc, xs) == IF xs = <<>> THEN acc ELSE SumFrom(FAdd(acc, xs[1]), Tail(xs))

\* sum < 99.5 || sum > 100.5
PercentSumOff(sum) == FLess(sum, Dyadic(199, -1)) \/ FLess(Dyadic(201, -1), sum)

\* lines 127-140
PercentageCheck(materialText) ==
    LET percentages == PercentagesFrom(materialText, 1)
        sum == SumFrom(Zero, percentages)
    IN  IF Len(percentages) > 0 /\ PercentSumOff(sum)
        THEN <<Finding("percentage sum", "medium", toFixed1(sum))>>
        ELSE <<>>

\* /(<generic name>|<chemical name>|CAS\s*<number>)/i
HasGeneric(window) ==
    \/ Includes(window, KwGenericName)
    \/ Includes(window, KwChemicalName)
    \/ TestSpacedI(window, KwCas, KwNumber)

\* /(<velcro>|<velcro>|Velcro|3M\s*\d{3,4})/gi read at p: the index of the last
\* character of the match, or 0
BrandAt(s, p) ==
    LET q == SetMax(AfterWS(s, p + Len(Kw3M)))
        e == DigitRunEnd(s, q)
    IN  IF At(s, p, KwVelcroKo1) THEN p + Len(KwVelcroKo1) - 1
        ELSE IF At(s, p, KwVelcroKo2) THEN p + Len(KwVelcroKo2) - 1
        ELSE IF AtI(s, p, KwVelcro) THEN p + Len(KwVelcro) - 1
        ELSE IF AtI(s, p, Kw3M) /\ e - q + 1 >= 3 THEN Min(e, q + 3)
        ELSE 0

\* the findings of the loop over brandMatches, from position p on (lines 154-168)
RECURSIVE BrandFindingsFrom(_, _)
BrandFindingsFrom(s, p) ==
    LET starts == {q \in p..Len(s) : BrandAt(s, q) # 0}
        start == SetMin(starts)
        last == BrandAt(s, start)
        window == SubSeq(s, start, Min(start + 199, Len(s)))
    IN  IF starts = {} THEN <<>>
        ELSE (IF HasGeneric(window) THEN <<>>
              ELSE <<Finding("brand name", "medium", SubSeq(s, start, last))>>)
             \o BrandFindingsFrom(s, last + 1)

\* lines 96-204
ruleMaterials(materialText, warningsText) ==
    LET hasLatex == \/ TestIgnoreCase(materialText, KwLatex)
                    \/ Includes(materialText, KwLatexKo)
                    \/ TestSpacedI(materialText, KwRubber, KwLatex)
        warnHasLatex == Includes(warningsText, KwAllergy) \/ Includes(warningsText, KwLatexKo)
        hasMenthol == TestIgnoreCase(materialText, KwMenthol) \/ Includes(materialText, KwMentholKo)
        \* /CAS\s*<number>.*\d/
        hasCasLine ==
            \E p \in 1..Len(materialText) :
                /\ At(materialText, p, KwCas)
                /\ \E q \in AfterWS(materialText, p + Len(KwCas)) :
                    /\ At(materialText, q, KwNumber)
                    /\ \E d \in (q + Len(KwNumber))..Len(materialText) :
                        /\ IsDigit(materialText[d])
                        /\ \A k \in (q + Len(KwNumber))..(d - 1) :
                            ~IsLineTerminator(materialText[k])
        hasContact == \/ Includes(materialText, KwContact)
                      \/ Includes(materialText, KwSkin)
                      \/ Includes(materialText, KwBodyContact)
        needsPurpose == \/ TestIgnoreCase(materialText, KwPigment)
                        \/ TestIgnoreCase(materialText, KwDye)
                        \/ Includes(materialText, KwColorant)
                        \/ TestSpacedI(materialText, KwTitanium, KwDioxide)
        hasPurpose == \E kw \in KwPurposes : Includes(materialText, kw)
        \* /(<generic name>|<chemical name>|CAS\s*[:\s]*\d{2,})/i
        hasGenericName ==
            \/ Includes(materialText, KwGenericName)
            \/ Includes(materialText, KwChemicalName)
            \/ \E p \in 1..Len(materialText) :
                /\ AtI(materialText, p, KwCas)
                /\ \E q \in (p + Len(KwCas))..(Len(materialText) - 1) :
                    /\ \A k \in (p + Len(KwCas))..(q - 1) :
                        IsWS(materialText[k]) \/ materialText[k] = 58
                    /\ IsDigit(materialText[q]) /\ IsDigit(materialText[q + 1])
        \* /(KS|ASTM|ISO)\s*[\w\-\.]+/i.test(...) || /<own standard>/.test(...)
        hasSpec ==
            \/ \E kw \in {KwKS, KwASTM, KwISO} : \E p \in 1..Len(materialText) :
                /\ AtI(materialText, p, kw)
                /\ \E q \in AfterWS(materialText, p + Len(kw)) :
                    /\ q <= Len(materialText)
                    /\ (IsWord(materialText[q]) \/ materialText[q] \in {45, 46})
            \/ Includes(materialText, KwOwnStandard)
    IN  IF materialText = <<>> THEN <<>>
        ELSE (IF hasLatex /\ ~warnHasLatex
              THEN <<Finding("latex allergy warning", "high", <<>>)>> ELSE <<>>)
          \o (IF hasMenthol /\ ~hasCasLine
              THEN <<Finding("menthol CAS number", "medium", <<>>)>> ELSE <<>>)
          \o PercentageCheck(materialText)
          \o (IF ~hasContact THEN <<Finding("contact information", "low", <<>>)>> ELSE <<>>)
          \o BrandFindingsFrom(materialText, 1)
          \o (IF needsPurpose /\ ~hasPurpose
              THEN <<Finding("additive purpose", "medium", <<>>)>> ELSE <<>>)
          \o (IF ~hasGenericName THEN <<Finding("generic name", "medium", <<>>)>> ELSE <<>>)
          \o (IF ~hasSpec THEN <<Finding("standard", "medium", <<>>)>> ELSE <<>>)

\* lines 206-231
ruleInstructions(text) ==
    LET confirmCount == Cardinality({p \in 1..Len(text) : At(text, p, KwConfirm)})
        hasSingleUse == Includes(text, KwSingleUse) \/ TestSpaced(text, KwReuse, KwForbidden)
    IN  IF text = <<>> THEN <<>>
        ELSE (IF confirmCount >= 3
              THEN <<Finding("repeated confirmation", "low", <<>>)>> ELSE <<>>)
          \o (IF ~hasSingleUse THEN <<Finding("single use", "medium", <<>>)>> ELSE <<>>)

\* lines 233-248
ruleProhibitedTerms(text) ==
    IF text = <<>> THEN <<>>
    ELSE IF Includes(text, KwProtector)
    THEN <<Finding("prohibited term", "high", KwProtector)>>
    ELSE <<>>

\* one array of the module, which keeps the findings of the invocation before
NewRuleIssues_Shared(previous) == previous

\* line 251: const ruleIssues: RuleIssue[] = [] inside the function: every invocation
\* pushes to an array of its own, whatever the array previous of the invocation before
\* it holds (the regular expressions with flag g of lines 128, 154 and 210 are likewise
\* literals of the function bodies, read through matchAll and match, which leave
\* lastIndex at 0)
NewRuleIssues(previous) == <<>>

\* lines 251-258: the findings of all checks, pushed in the order of the checks, in an
\* invocation that follows one whose array was previous
RuleIssuesAfter(previous, submissionText) ==
    NewRuleIssues(previous)
    \o ruleSterileConflict(submissionText)
    \o ruleUnits(submissionText)
    \o ruleMaterials(submissionText, submissionText)
    \o ruleInstructions(submissionText)
    \o ruleProhibitedTerms(submissionText)

\* lines 251-258 in the first invocation
RuleIssues(submissionText) == RuleIssuesAfter(<<>>, submissionText)

\* lines 261-285: ruleIssues.map(...); title stands for issue.msg (the check and the
\* value it embeds)
MappedIssues(ruleIssues) ==
    [k \in 1..Len(ruleIssues) |->
        [severity |-> severityMap(ruleIssues[k].severity),
         title |-> ruleIssues[k].check, detail |-> ruleIssues[k].detail]]

\* lines 250-286
runRuleBasedFiltering(submissionText) == MappedIssues(RuleIssues(submissionText))

(***************************************************************************)
(* Retrieval of regulation chunks: the nearest-neighbour query             *)
(* search_similar_regulations and the whole-corpus query of                *)
(* analyze-submission. Similarities and thresholds are in hundredths.      *)
(***************************************************************************)
MaxChunks == 2      \* rows of regulation_chunks in the retrieval specification
MaxAbove == 2       \* similarities range up to the threshold + MaxAbove

SimScale == 100
AnalyzerThreshold == 60     \* match_threshold: 0.6
AnalyzerMatchCount == 5     \* match_count: 5

RegStatus == {"active", "archived", "draft"}

\* the orders ORDER BY key may return the rows S in: ascending, ties in any order
SortedBy(S, key) ==
    {ord \in [1..Cardinality(S) -> S] :
        /\ \A i, j \in 1..Cardinality(S) : i # j => ord[i] # ord[j]
        /\ \A i, j \in 1..Cardinality(S) : i < j => key[ord[i]] <= key[ord[j]]}

\* a chunk at the threshold matches too
Matches_Inclusive(similarity, match_threshold) == similarity >= match_threshold

\* WHERE 1 - (regulation_chunks.embedding <=> query_embedding) > match_threshold
Matches(similarity, match_threshold) == similarity > match_threshold

\* the results search_similar_regulations may return; chunks[i].similarity is
\* 1 - (embedding <=> query_embedding) of row i
search_similar_regulations(chunks, match_threshold, match_count) ==
    LET hits == {i \in 1..Len(chunks) : Matches(chunks[i].similarity, match_threshold)}
        distance == [i \in hits |-> SimScale - chunks[i].similarity]
    IN  {[k \in 1..Min(match_count, Cardinality(hits)) |->
            [id |-> ord[k], regulation_id |-> chunks[ord[k]].regulation_id,
             similarity |-> chunks[ord[k]].similarity]] : ord \in SortedBy(hits, distance)}

\* the results of supabase.from('regulation_chunks').select(`..., regulations (...)`)
\* .order('chunk_index'): every row, with the regulations row it references
AllRegulationChunks(chunks, regs) ==
    LET chunk_index == [i \in 1..Len(chunks) |-> chunks[i].chunk_index]
    IN  {[k \in 1..Len(chunks) |->
            [id |-> ord[k], regulation_id |-> chunks[ord[k]].regulation_id,
             chunk_index |-> chunks[ord[k]].chunk_index,
             regulations |-> [id |-> chunks[ord[k]].regulation_id,
                              status |-> regs[chunks[ord[k]].regulation_id]]]]
         : ord \in SortedBy(1..Len(chunks), chunk_index)}

\* the similarities of the rows to the query embedding: below the threshold, at it and
\* above it
Similarities == (AnalyzerThreshold - Slack)..(AnalyzerThreshold + MaxAbove)

\* the rows of regulation_chunks, with their similarity to the query embedding
ChunkRows ==
    [regulation_id : RegIds, chunk_index : 0..1, similarity : Similarities]

\* one row more, of one regulation, in every combination of similarities
SimilarRows ==
    {[k \in 1..(MaxChunks + 1) |-> [regulation_id |-> 1, chunk_index |-> k - 1,
                                      similarity |-> sim[k]]] :
        sim \in [1..(MaxChunks + 1) -> Similarities]}

InitSearch ==
    /\ InitPure
    /\ call \in [regulations : [RegIds -> RegStatus],
                 chunks : UNION {[1..n -> ChunkRows] : n \in 0..MaxChunks} \cup SimilarRows,
                 match_threshold : {AnalyzerThreshold},
                 match_count : {1, 2, AnalyzerMatchCount}]

\* supabase.rpc('search_similar_regulations', {query_embedding, match_threshold, match_count})
SearchCall ==
    /\ ~ret.returned
    /\ \E rows \in search_similar_regulations(call.chunks, call.match_threshold,
                                               call.match_count) :
        ret' = [returned |-> TRUE, mode |-> "nearest", rows |-> rows]
    /\ UNCHANGED <<dbVars, run, call>>

\* analyze-submission, lines 332-352: the select of every row; with regError the data is
\* null and no row is handed over
FetchAllCall(selectOk) ==
    /\ ~ret.returned
    /\ \E rows \in IF selectOk THEN AllRegulationChunks(call.chunks, call.regulations)
                   ELSE {<<>>} :
        ret' = [returned |-> TRUE, mode |-> "all", rows |-> rows]
    /\ UNCHANGED <<dbVars, run, call>>

NextSearch == SearchCall \/ \E selectOk \in BOOLEAN : FetchAllCall(selectOk)

SpecSearch == InitSearch /\ [][NextSearch]_vars

(***************************************************************************)
(* The answer of the model (analyze-submission): the bracketed part of the *)
(* text and JSON.parse of it. JSON.parse follows the JSON grammar: the     *)
(* literals, numbers with fraction and exponent, strings with escapes,     *)
(* arrays and objects nested to any depth, blanks between the tokens.      *)
(***************************************************************************)
LBracket == 91
RBracket == 93
LBrace == 123
RBrace == 125
Quote == 34
Colon == 58
Comma == 44
Minus == 45
Backslash == 92

JsNull == <<110, 117, 108, 108>>    \* null
JsTrue == <<116, 114, 117, 101>>    \* true
JsFalse == <<102, 97, 108, 115, 101>>    \* false
KeyCategory == <<99, 97, 116, 101, 103, 111, 114, 121>>    \* category
KeySeverity == <<115, 101, 118, 101, 114, 105, 116, 121>>    \* severity
KeyTitle == <<116, 105, 116, 108, 101>>    \* title
KeyDescription == <<100, 101, 115, 99, 114, 105, 112, 116, 105, 111, 110>>    \* description
SevError == <<101, 114, 114, 111, 114>>    \* error
SevWarning == <<119, 97, 114, 110, 105, 110, 103>>    \* warning
SevInfo == <<105, 110, 102, 111>>    \* info

NoMatch == [matched |-> FALSE, text |-> <<>>]

\* analysisText.match(/\[[\s\S]*\]/): from the first "[" to the last "]"
JsonMatch(analysisText) ==
    LET opens == {p \in 1..Len(analysisText) : analysisText[p] = LBracket}
        closes == {p \in 1..Len(analysisText) : analysisText[p] = RBracket}
    IN  IF opens = {} \/ closes = {} THEN NoMatch
        ELSE IF SetMin(opens) < SetMax(closes)
        THEN [matched |-> TRUE,
              text |-> SubSeq(analysisText, SetMin(opens), SetMax(closes))]
        ELSE NoMatch

\* JSON whitespace
IsJsonWS(c) == c \in {9, 10, 13, 32}

JsonTrim(s) ==
    LET solid == {p \in 1..Len(s) : ~IsJsonWS(s[p])}
    IN  IF solid = {} THEN <<>> ELSE SubSeq(s, SetMin(solid), SetMax(solid))

\* the number of backslashes right before position p
BackslashesBefore(s, p) ==
    LET others == {q \in 1..(p - 1) : s[q] # Backslash}
    IN  p - 1 - (IF others = {} THEN 0 ELSE SetMax(others))

\* the character at p follows a backslash that is not itself escaped
Escaped(s, p) == p > 1 /\ s[p - 1] = Backslash /\ BackslashesBefore(s, p) % 2 = 1

\* the one element of a set of one element
Only(S) == CHOOSE x \in S : TRUE

\* the sequence s, each element computed once
Computed(s) == s \o <<>>

\* the quotes of s that open or close a string literal
Quotes(s) == {q \in 1..Len(s) : s[q] = Quote /\ ~Escaped(s, q)}

\* position p lies outside every string literal, quotes being the quotes of the text
Outside(quotes, p) == Cardinality({q \in quotes : q < p}) % 2 = 0

\* position p lies outside every string literal of s
OutsideString(s, p) == Outside(Quotes(s), p)

\* the number of objects and arrays open at position p
DepthAt(s, quotes, p) ==
    Cardinality({q \in 1..(p - 1) : s[q] \in {LBrace, LBracket} /\ Outside(quotes, q)})
    - Cardinality({q \in 1..(p - 1) : s[q] \in {RBrace, RBracket} /\ Outside(quotes, q)})

\* the separators of the elements (members) of the array (object) whose inside is s
Separators(s) ==
    UNION {{p \in 1..Len(s) : s[p] = Comma /\ Outside(quotes, p) /\ DepthAt(s, quotes, p) = 0} :
              quotes \in {Quotes(s)}}

\* the parts of s between the positions seps
Pieces(s, seps) ==
    LET n == Cardinality(seps)
        nth(k) == IF k = 0 THEN 0
                  ELSE IF k = n + 1 THEN Len(s) + 1
                  ELSE CHOOSE p \in seps : Cardinality({q \in seps : q < p}) = k - 1
    IN  [k \in 1..(n + 1) |-> SubSeq(s, nth(k - 1) + 1, nth(k) - 1)]

\* the texts of the elements (members) of the array (object) whose inside is s
Parts(s) ==
    Only({Computed([k \in 1..(Cardinality(seps) + 1) |-> JsonTrim(Pieces(s, seps)[k])]) :
             seps \in {Separators(s)}})

\* the last position of the digits of d that start at from; from - 1 when there is none
DigitsEnd(d, from) ==
    LET others == {p \in from..Len(d) : ~IsDigit(d[p])}
    IN  IF others = {} THEN Len(d) ELSE SetMin(others) - 1

\* -?(0|[1-9][0-9]*)(\.[0-9]+)?([eE][+-]?[0-9]+)?
IsJsonNumber(t) ==
    LET d == IF Len(t) > 0 /\ t[1] = Minus THEN Tail(t) ELSE t
        n == Len(d)
        int == DigitsEnd(d, 1)
        hasFrac == int < n /\ d[int + 1] = 46
        frac == IF hasFrac THEN DigitsEnd(d, int + 2) ELSE int
        hasExp == frac < n /\ d[frac + 1] \in {69, 101}
        sign == IF hasExp /\ frac + 1 < n /\ d[frac + 2] \in {43, 45}
                THEN frac + 2 ELSE frac + 1
        exp == IF hasExp THEN DigitsEnd(d, sign + 1) ELSE frac
    IN  /\ int >= 1
        /\ (int > 1 => d[1] # 48)
        /\ (hasFrac => frac >= int + 2)
        /\ (hasExp => exp >= sign + 1)
        /\ exp = n

IsHex(c) == IsDigit(c) \/ (c >= 65 /\ c <= 70) \/ (c >= 97 /\ c <= 102)

HexValue(c) == IF IsDigit(c) THEN c - 48 ELSE IF c >= 97 THEN c - 87 ELSE c - 55

\* a backslash of a string literal that starts an escape
EscapeAt(t, p) == p >= 1 /\ t[p] = Backslash /\ BackslashesBefore(t, p) % 2 = 0

\* \" \\ \/ \b \f \n \r \t and \u with four hexadecimal digits
ValidEscape(t, p) ==
    \/ t[p + 1] \in {34, 92, 47, 98, 102, 110, 114, 116}
    \/ /\ t[p + 1] = 117
       /\ p + 5 < Len(t)
       /\ \A k \in 2..5 : IsHex(t[p + k])

\* "...": no control character, a quote only after a backslash, valid escapes
IsJsonString(t) ==
    /\ Len(t) >= 2 /\ t[1] = Quote /\ t[Len(t)] = Quote /\ ~Escaped(t, Len(t))
    /\ \A p \in 2..(Len(t) - 1) :
          /\ t[p] >= 32
          /\ t[p] = Quote => Escaped(t, p)
          /\ EscapeAt(t, p) => ValidEscape(t, p)

\* the character an escape stands for
Unescaped(t, p) ==
    CASE t[p + 1] = 98 -> 8
      [] t[p + 1] = 102 -> 12
      [] t[p + 1] = 110 -> 10
      [] t[p + 1] = 114 -> 13
      [] t[p + 1] = 116 -> 9
      [] t[p + 1] = 117 -> 4096 * HexValue(t[p + 2]) + 256 * HexValue(t[p + 3])
                            + 16 * HexValue(t[p + 4]) + HexValue(t[p + 5])
      [] OTHER -> t[p + 1]

\* the value of a string literal
StringValue(t) ==
    LET idx == [p \in 1..Len(t) |-> p]
        partOfEscape(p) ==
            \/ EscapeAt(t, p - 1)
            \/ \E k \in 2..5 : p - k >= 1 /\ EscapeAt(t, p - k) /\ t[p - k + 1] = 117
        kept == SelectSeq(idx, LAMBDA p : p > 1 /\ p < Len(t) /\ ~partOfEscape(p))
    IN  [k \in 1..Len(kept) |->
            IF EscapeAt(t, kept[k]) THEN Unescaped(t, kept[k]) ELSE t[kept[k]]]

ScalarKind(t) ==
    IF t = JsNull THEN "null"
    ELSE IF t = JsTrue \/ t = JsFalse THEN "boolean"
    ELSE IF IsJsonNumber(t) THEN "number"
    ELSE IF IsJsonString(t) THEN "string"
    ELSE "invalid"

RECURSIVE JsonKind(_)

NoMember == [valid |-> FALSE, key |-> <<>>, kind |-> "invalid", value |-> <<>>]

\* the member of the texts key and value, kind being the kind of the value
MemberOf(key, value, kind) ==
    IF ~IsJsonString(key) \/ kind = "invalid" THEN NoMember
    ELSE [valid |-> TRUE, key |-> StringValue(key), kind |-> kind,
          value |-> IF kind = "string" THEN StringValue(value) ELSE value]

\* the member of the text m whose colon is at c
MemberAt(m, c) ==
    Only({Only({MemberOf(key, value, kind) : kind \in {JsonKind(value)}}) :
             key \in {JsonTrim(SubSeq(m, 1, c - 1))},
             value \in {JsonTrim(SubSeq(m, c + 1, Len(m)))}})

\* "key" : value, the one property the member gives the object
ParseMember(m) ==
    Only({IF colons = {} THEN NoMember ELSE MemberAt(m, SetMin(colons)) :
             colons \in {UNION {{p \in 1..Len(m) : m[p] = Colon /\ Outside(quotes, p)} :
                                  quotes \in {Quotes(m)}}}})

NoObject == [valid |-> FALSE, members |-> <<>>]

\* the object of the members
ObjectOf(members) ==
    IF \A k \in 1..Len(members) : members[k].valid
    THEN [valid |-> TRUE, members |-> members]
    ELSE NoObject

\* { members }
ParseObject(t) ==
    IF Len(t) < 2 \/ t[1] # LBrace \/ t[Len(t)] # RBrace THEN NoObject
    ELSE Only({IF \A p \in 1..Len(inside) : IsJsonWS(inside[p])
               THEN [valid |-> TRUE, members |-> <<>>]
               ELSE Only({ObjectOf(Computed([k \in 1..Len(parts) |-> ParseMember(parts[k])])) :
                             parts \in {Parts(inside)}}) :
                  inside \in {SubSeq(t, 2, Len(t) - 1)}})

NoArray == [valid |-> FALSE, elements |-> <<>>]

\* the array of the texts elements
ArrayFrom(elements) ==
    IF \A k \in 1..Len(elements) : JsonKind(elements[k]) # "invalid"
    THEN [valid |-> TRUE, elements |-> elements]
    ELSE NoArray

\* [ elements ]: the texts of the elements
ParseArray(t) ==
    IF Len(t) < 2 \/ t[1] # LBracket \/ t[Len(t)] # RBracket THEN NoArray
    ELSE Only({IF \A p \in 1..Len(inside) : IsJsonWS(inside[p])
               THEN [valid |-> TRUE, elements |-> <<>>]
               ELSE Only({ArrayFrom(parts) : parts \in {Parts(inside)}}) :
                  inside \in {SubSeq(t, 2, Len(t) - 1)}})

\* the kind of the value a text without blanks around it stands for; invalid when
\* JSON.parse throws SyntaxError on it
JsonKind(t) ==
    Only({IF scalar # "invalid" THEN scalar
          ELSE IF ParseArray(t).valid THEN "array"
          ELSE IF ParseObject(t).valid THEN "object"
          ELSE "invalid" : scalar \in {ScalarKind(t)}})

\* the columns of analysis_issues that are NOT NULL besides severity
RequiredText == {"category", "title", "description"}

KeyOf(column) ==
    CASE column = "category" -> KeyCategory
      [] column = "title" -> KeyTitle
      [] column = "description" -> KeyDescription
      [] column = "severity" -> KeySeverity

\* the property of the object under the key: the last member of that name
Property(members, key) ==
    LET at == {k \in 1..Len(members) : members[k].key = key}
    IN  IF at = {} THEN [kind |-> "undefined", value |-> <<>>]
        ELSE [kind |-> members[SetMax(at)].kind, value |-> members[SetMax(at)].value]

\* issue.severity as the verdict and the severity CHECK see it
SeverityOf(property) ==
    IF property.kind \in {"undefined", "null"} THEN "undefined"
    ELSE IF property.kind # "string" THEN "other"
    ELSE IF property.value = SevError THEN "error"
    ELSE IF property.value = SevWarning THEN "warning"
    ELSE IF property.value = SevInfo THEN "info"
    ELSE "other"

\* the issue of an element that is not null: obj is the element parsed as an object
IssueOf(obj) ==
    IF obj.valid
    THEN [severity |-> SeverityOf(Property(obj.members, KeySeverity)),
          missing |-> {c \in RequiredText :
                         Property(obj.members, KeyOf(c)).kind \in {"undefined", "null"}},
          isNull |-> FALSE]
    ELSE [severity |-> "undefined", missing |-> RequiredText, isNull |-> FALSE]

\* an element of the parsed array, read as an AnalysisIssue: isNull for the element null,
\* missing for the required columns the element gives no value for; an element that is
\* no object has none of the properties
ElementIssue(t) ==
    IF t = JsNull THEN [severity |-> "undefined", missing |-> RequiredText, isNull |-> TRUE]
    ELSE Only({IssueOf(obj) : obj \in {ParseObject(t)}})

\* JSON.parse("[" + t + "]") does not throw
ValidElement(t) == \E e \in {JsonTrim(t)} : JsonKind(e) # "invalid"

\* the issues of the elements of the array
ArrayIssues(array) ==
    IF array.valid
    THEN [threw |-> FALSE,
          issues |-> Computed([k \in 1..Len(array.elements) |->
                                  ElementIssue(array.elements[k])])]
    ELSE [threw |-> TRUE, issues |-> <<>>]

\* JSON.parse(jsonMatch[0]) of a text that starts with "[" and ends with "]"
JsonParse(text) == Only({ArrayIssues(array) : array \in {ParseArray(text)}})

\* the issues of the call are dropped: no bracketed part, or one that does not parse
NoParseableArray(analysisText) ==
    IF JsonMatch(analysisText).matched
    THEN JsonParse(JsonMatch(analysisText).text).threw
    ELSE TRUE

\* lines 509-518 (part_003: 140-148): the issues read from the answer
ParsedIssues(analysisText) ==
    IF NoParseableArray(analysisText) THEN <<>>
    ELSE JsonParse(JsonMatch(analysisText).text).issues

(***************************************************************************)
(* analyze-submission: the whole-document handler (index.ts) and the       *)
(* per-chunk handler (part_003), which share the persistence of the        *)
(* result, of the issues and of the submission status.                     *)
(***************************************************************************)
\* submissionChunks.map(c => c.content).join('\n\n')
SubmissionText(rows) == Join([k \in 1..Len(rows) |-> rows[k].content], <<LF, LF>>)

\* the element null among the issues
IsNullIssue(issue) == IF "isNull" \in DOMAIN issue THEN issue.isNull ELSE FALSE

\* allIssues.some(issue => issue.severity === sev) reads a property of null
SomeThrows(allIssues, sev) ==
    LET nulls == {k \in 1..Len(allIssues) : IsNullIssue(allIssues[k])}
        hits == {k \in 1..Len(allIssues) :
                    ~IsNullIssue(allIssues[k]) /\ allIssues[k].severity = sev}
    IN  IF nulls = {} THEN FALSE
        ELSE IF hits = {} THEN TRUE
        ELSE SetMin(nulls) < SetMin(hits)

\* lines 527-528: hasErrors and hasWarnings are both evaluated
VerdictThrows(allIssues) == SomeThrows(allIssues, "error") \/ SomeThrows(allIssues, "warning")

\* a 200 answer of the gateway whose body carries no text: choices[0].message.content
\* or analysisText.match raises a TypeError
GatewayNoText == [kind |-> "no_text", content |-> <<>>]

AnalyzerGateway(texts) == Gateway(texts) \cup {GatewayNoText}

\* lines 304-308 (part_003: 39-43): .order('chunk_index'), the rows of the submission in
\* ascending chunk_index, rows of one index in any order
OrderedChunks(rows) ==
    {[k \in 1..Len(rows) |-> rows[ord[k]]] :
        ord \in SortedBy(1..Len(rows), [i \in 1..Len(rows) |-> rows[i].chunk_index])}

\* the start of a request to analyze-submission that reads the rows submissionChunks
Started(r, kind, chunksError, key, submissionChunks) ==
    [run[r] EXCEPT !.kind = kind, !.chunksError = chunksError, !.key = key,
                   !.chunks = IF chunksError THEN <<>> ELSE submissionChunks]

\* JSON.parse outside a try block
ParseErrorIsFatal_Uncaught(analysisText) ==
    IF JsonMatch(analysisText).matched
    THEN JsonParse(JsonMatch(analysisText).text).threw
    ELSE FALSE

\* lines 513-517 (part_003: 142-147): try { JSON.parse } catch { console.error }
ParseErrorIsFatal(analysisText) == FALSE

\* a non-OK answer is passed over
NotOkIsFatal_Ignored(gw) == FALSE

\* lines 499-503: throw new Error(`AI analysis failed: ...`)
NotOkIsFatal(gw) == gw.kind = "not_ok"

\* index.ts lines 293-529: the reads, the rule checks, the call of the model, the verdict
\* (submissionText and ruleBasedIssues are read only past the checks of the chunks and the key)
AS_Request(r, chunksError, key, gw) ==
    /\ MayStart(r)
    /\ \E submissionChunks \in OrderedChunks(submission_chunks) :
       \E started \in {Started(r, "analyze", chunksError, key, submissionChunks)} :
       \E submissionText \in {SubmissionText(started.chunks)} :
       \E ruleBasedIssues \in {runRuleBasedFiltering(submissionText)} :
       \E aiIssues \in {IF gw.kind = "ok" THEN ParsedIssues(gw.content) ELSE <<>>} :
          LET failed == [started EXCEPT !.pc = "done", !.response = Response500]
              called == [started EXCEPT !.fetched = TRUE, !.gateway = gw]
              allIssues == ruleBasedIssues \o aiIssues
              merged == [called EXCEPT !.ruleBasedIssues = ruleBasedIssues,
                                       !.aiIssues = aiIssues, !.allIssues = allIssues]
          IN  IF chunksError \/ started.chunks = <<>> \/ ~key
              THEN run' = [run EXCEPT ![r] = failed]
              ELSE IF \/ gw.kind \in {"throw", "no_text"}
                      \/ NotOkIsFatal(gw)
                      \/ gw.kind = "ok" /\ ParseErrorIsFatal(gw.content)
              THEN run' = [run EXCEPT ![r] = [called EXCEPT
                               !.pc = "done", !.response = Response500]]
              ELSE IF VerdictThrows(allIssues)
              THEN run' = [run EXCEPT ![r] = [merged EXCEPT
                               !.pc = "done", !.response = Response500]]
              ELSE run' = [run EXCEPT ![r] = [merged EXCEPT
                               !.overallStatus = overallStatus(allIssues), !.pc = "result"]]
    /\ UNCHANGED <<dbVars, call, ret>>

\* the outcomes of the search of one chunk: the rpc returns an error, no row, or rows
SearchOutcomes == {"error", "empty", "found"}

\* part_003 lines 75-134: the chunk is skipped
Skipped(c) == c.search # "found" \/ c.gw.kind = "not_ok"

\* part_003 lines 110-137: fetch, .json() and the read of the content are not guarded
\* inside the loop
Raises(c) ==
    /\ c.search = "found"
    /\ \/ c.gw.kind \in {"throw", "no_text"}
       \/ c.gw.kind = "ok" /\ ParseErrorIsFatal(c.gw.content)

\* part_003 lines 59-149: the issues collected from the first k chunks
RECURSIVE LoopIssues(_, _)
LoopIssues(calls, k) ==
    IF k = 0 THEN <<>>
    ELSE LoopIssues(calls, k - 1)
         \o (IF Skipped(calls[k]) THEN <<>> ELSE ParsedIssues(calls[k].gw.content))

\* part_003 lines 28-156: the reads, the loop over the chunks, the verdict
AC_Request(r, chunksError, key, calls) ==
    /\ MayStart(r)
    /\ \E submissionChunks \in OrderedChunks(submission_chunks) :
       LET started == Started(r, "analyzeChunks", chunksError, key, submissionChunks)
           failed == [started EXCEPT !.pc = "done", !.response = Response500]
           looped == [started EXCEPT !.calls = calls,
                         !.fetched = \E k \in 1..Len(calls) : calls[k].search = "found"]
           allIssues == LoopIssues(calls, Len(calls))
       IN  /\ Len(calls) = IF chunksError \/ ~key THEN 0 ELSE Len(submission_chunks)
           /\ IF chunksError \/ started.chunks = <<>> \/ ~key
              THEN run' = [run EXCEPT ![r] = failed]
              ELSE IF \E k \in 1..Len(calls) : Raises(calls[k])
              THEN run' = [run EXCEPT ![r] = [looped EXCEPT
                               !.pc = "done", !.response = Response500]]
              ELSE IF VerdictThrows(allIssues)
              THEN run' = [run EXCEPT ![r] = [looped EXCEPT !.aiIssues = allIssues,
                               !.allIssues = allIssues,
                               !.pc = "done", !.response = Response500]]
              ELSE run' = [run EXCEPT ![r] = [looped EXCEPT !.aiIssues = allIssues,
                               !.allIssues = allIssues,
                               !.overallStatus = overallStatus(allIssues), !.pc = "result"]]
    /\ UNCHANGED <<dbVars, call, ret>>

Analyzing(r) == run[r].kind \in {"analyze", "analyzeChunks"}

\* the handler goes on when the result cannot be stored
ResultErrorIsFatal_Logged(insertOk) == FALSE

\* lines 540-543 (part_003: 167-170): analysisError is thrown
ResultErrorIsFatal(insertOk) == ~insertOk

\* lines 532-543 (part_003: 159-170): insert into analysis_results
AN_InsertResult(r, insertOk) ==
    /\ Analyzing(r) /\ run[r].pc = "result"
    /\ LET id == Len(analysis_results) + 1
       IN  /\ analysis_results' =
                 IF insertOk
                 THEN Append(analysis_results,
                             [id |-> id, overall_status |-> run[r].overallStatus])
                 ELSE analysis_results
           /\ run' = [run EXCEPT ![r] = [@ EXCEPT
                        !.wrote = Append(@, [op |-> "insert analysis_results", ok |-> insertOk]),
                        !.analysisId = IF insertOk THEN id ELSE 0,
                        !.pc = IF ResultErrorIsFatal(insertOk) THEN "done"
                               ELSE IF Len(run[r].allIssues) > 0 THEN "issues" ELSE "update",
                        !.response = IF ResultErrorIsFatal(insertOk)
                                     THEN Response500 ELSE Absent]]
    /\ UNCHANGED <<submissionStatus, submission_chunks, regulation_chunks, storage, regulations,
                 analysis_issues, call, ret>>

\* the NOT NULL columns and the CHECK on severity of analysis_issues
Insertable(issue) ==
    /\ issue.severity \in Severity
    /\ IF "missing" \in DOMAIN issue THEN issue.missing = {} ELSE TRUE

\* the rows do not carry the id of the result
IssueRows_NoReference(allIssues, id) ==
    [k \in 1..Len(allIssues) |->
        [analysis_result_id |-> 0, severity |-> allIssues[k].severity]]

\* allIssues.map(issue => ({ analysis_result_id: analysisResult.id, ... }))
IssueRows(allIssues, id) ==
    [k \in 1..Len(allIssues) |->
        [analysis_result_id |-> id, severity |-> allIssues[k].severity]]

\* the handler gives up when the issues cannot be stored
IssuesErrorIsFatal_Throws(stored) == ~stored

\* lines 570-572 (part_003: 189-191): issuesError is logged
IssuesErrorIsFatal(stored) == FALSE

\* lines 546-573 (part_003: 173-192): one insert of all the issues
AN_InsertIssues(r, insertOk) ==
    /\ Analyzing(r) /\ run[r].pc = "issues"
    /\ LET allIssues == run[r].allIssues
           mapThrows == \E k \in 1..Len(allIssues) : IsNullIssue(allIssues[k])
           stored == insertOk /\ \A k \in 1..Len(allIssues) : Insertable(allIssues[k])
       IN  IF mapThrows
           THEN /\ run' = [run EXCEPT ![r] = [@ EXCEPT
                             !.pc = "done", !.response = Response500]]
                /\ UNCHANGED analysis_issues
           ELSE /\ analysis_issues' =
                      IF stored
                      THEN analysis_issues \o IssueRows(allIssues, run[r].analysisId)
                      ELSE analysis_issues
                /\ run' = [run EXCEPT ![r] = [@ EXCEPT
                             !.wrote = Append(@, [op |-> "insert analysis_issues",
                                                  ok |-> stored]),
                             !.pc = IF IssuesErrorIsFatal(stored) THEN "done" ELSE "update",
                             !.response = IF IssuesErrorIsFatal(stored)
                                          THEN Response500 ELSE Absent]]
    /\ UNCHANGED <<submissionStatus, submission_chunks, regulation_chunks, storage, regulations,
                 analysis_results, call, ret>>

\* lines 576-595 (part_003: 195-214): status update and response
AN_Update(r, updateOk) ==
    /\ Analyzing(r) /\ run[r].pc = "update"
    /\ submissionStatus' = IF updateOk THEN "completed" ELSE submissionStatus
    /\ run' = [run EXCEPT ![r] = [@ EXCEPT
                    !.wrote = Append(@, [op |-> "update submissions", ok |-> updateOk]),
                    !.pc = "done",
                    !.response = [status |-> 200, success |-> TRUE,
                                  analysisId |-> run[r].analysisId,
                                  overallStatus |-> run[r].overallStatus,
                                  issuesFound |-> Len(run[r].allIssues)]]]
    /\ UNCHANGED <<submission_chunks, regulation_chunks, storage, regulations, analysis_results,
                 analysis_issues, call, ret>>

(***************************************************************************)
(* One request to analyze-submission, in either mode, over the stored      *)
(* chunks, the answers of the gateway and the outcomes of the storage      *)
(* calls.                                                                  *)
(***************************************************************************)
\* {"category":"c","severity":"error","title":"t","description":"d"}
IssueError ==
    <<123, 34, 99, 97, 116, 101, 103, 111, 114, 121, 34, 58, 34, 99, 34, 44, 34, 115,
      101, 118, 101, 114, 105, 116, 121, 34, 58, 34, 101, 114, 114, 111, 114, 34, 44,
      34, 116, 105, 116, 108, 101, 34, 58, 34, 116, 34, 44, 34, 100, 101, 115, 99, 114,
      105, 112, 116, 105, 111, 110, 34, 58, 34, 100, 34, 125>>

\* {"category":"c","severity":"warning","title":"t","description":"d"}
IssueWarning ==
    <<123, 34, 99, 97, 116, 101, 103, 111, 114, 121, 34, 58, 34, 99, 34, 44, 34, 115,
      101, 118, 101, 114, 105, 116, 121, 34, 58, 34, 119, 97, 114, 110, 105, 110, 103,
      34, 44, 34, 116, 105, 116, 108, 101, 34, 58, 34, 116, 34, 44, 34, 100, 101, 115,
      99, 114, 105, 112, 116, 105, 111, 110, 34, 58, 34, 100, 34, 125>>

\* {"category":"c","severity":"critical","title":"t","description":"d"}
IssueOther ==
    <<123, 34, 99, 97, 116, 101, 103, 111, 114, 121, 34, 58, 34, 99, 34, 44, 34, 115,
      101, 118, 101, 114, 105, 116, 121, 34, 58, 34, 99, 114, 105, 116, 105, 99, 97,
      108, 34, 44, 34, 116, 105, 116, 108, 101, 34, 58, 34, 116, 34, 44, 34, 100, 101,
      115, 99, 114, 105, 112, 116, 105, 111, 110, 34, 58, 34, 100, 34, 125>>

\* {"severity":"error","category":"c","title":"a\"b","description":"d","citations":[{"score":0.85}]}
IssueCited ==
    <<123, 34, 115, 101, 118, 101, 114, 105, 116, 121, 34, 58, 34, 101, 114, 114, 111,
      114, 34, 44, 34, 99, 97, 116, 101, 103, 111, 114, 121, 34, 58, 34, 99, 34, 44, 34,
      116, 105, 116, 108, 101, 34, 58, 34, 97, 92, 34, 98, 34, 44, 34, 100, 101, 115, 99,
      114, 105, 112, 116, 105, 111, 110, 34, 58, 34, 100, 34, 44, 34, 99, 105, 116, 97,
      116, 105, 111, 110, 115, 34, 58, 91, 123, 34, 115, 99, 111, 114, 101, 34, 58, 48,
      46, 56, 53, 125, 93, 125>>

\* {"severity":"info"}
IssueBare ==
    <<123, 34, 115, 101, 118, 101, 114, 105, 116, 121, 34, 58, 34, 105, 110, 102, 111,
      34, 125>>

\* ```
Fence ==
    <<96, 96, 96>>

\* ok
Prose ==
    <<111, 107>>

\* 50%
Percent50 ==
    <<53, 48, 37>>

ArrayOf(elements) == <<LBracket>> \o Join(elements, <<Comma, SP>>) \o <<RBracket>>

\* what the gateway may answer to analyze-submission: no array, an empty array, arrays of
\* issues, two arrays in one text, arrays holding null, an issue with an escape, a
\* nested array and a fraction
AnswerTexts ==
    {Prose, ArrayOf(<<>>), Fence \o <<LF>> \o ArrayOf(<<IssueError>>) \o <<LF>> \o Fence,
     ArrayOf(<<IssueWarning>>), ArrayOf(<<IssueBare>>), ArrayOf(<<IssueOther>>),
     ArrayOf(<<<<49>>>>) \o <<SP>> \o ArrayOf(<<<<50>>>>),
     ArrayOf(<<JsNull>>), ArrayOf(<<IssueError, JsNull>>),
     ArrayOf(<<IssueError, IssueWarning, JsNull>>), ArrayOf(<<IssueCited>>)}

FewAnswerTexts ==
    {Prose, ArrayOf(<<IssueError>>), ArrayOf(<<IssueWarning>>),
     ArrayOf(<<<<49>>>>) \o <<SP>> \o ArrayOf(<<<<50>>>>)}

\* the chunks of the submission: none, one without a finding of the rules, two with a
\* high finding, two with a medium finding
SubmissionChunkLists ==
    {<<>>, <<<<LetterA>>>>, <<KwSterile, KwNonSterile1>>, <<Percent50, <<LetterA>>>>}

\* mm 1cm
MmThenCm ==
    <<109, 109, 32, 49, 99, 109>>

\* the rows stored for the submission: those of one process-document request, or those
\* of two requests on different texts (nothing deletes the rows of the first), where the
\* unit header meets "mm" only when the row of the second request is not read between
StoredChunkLists ==
    {Rows(c) : c \in SubmissionChunkLists}
    \cup {Rows(<<KwUnit, MmThenCm>>) \o Rows(<<<<LetterA>>>>)}

NoCall == [kind |-> "none", content |-> <<>>]

\* per chunk: the outcome of the search and, when rows were found, of the gateway
ChunkCalls ==
    {[search |-> s, gw |-> NoCall] : s \in SearchOutcomes \ {"found"}}
    \cup {[search |-> "found", gw |-> g] : g \in AnalyzerGateway(FewAnswerTexts)}

\* the chunks the loop of the per-chunk handler runs over
LoopLength(chunksError, key) == IF chunksError \/ ~key THEN 0 ELSE Len(submission_chunks)

InitAnalyzeOne ==
    /\ \E rows \in StoredChunkLists :
          /\ submission_chunks = rows
          /\ submissionStatus = IF rows = <<>> THEN "pending" ELSE "processing"
    /\ regulation_chunks = <<>>
    /\ storage = [submissions |-> <<>>, regulations |-> <<>>, large |-> {}]
    /\ regulations = {}
    /\ analysis_results = <<>>
    /\ analysis_issues = <<>>
    /\ run = [r \in Runs |-> Idle]
    /\ call = <<>>
    /\ ret = NotReturned

NextAnalyzeOne ==
    \/ \E chunksError \in BOOLEAN, key \in BOOLEAN, gw \in AnalyzerGateway(AnswerTexts) :
          AS_Request(1, chunksError, key, gw)
    \/ \E chunksError \in BOOLEAN, key \in BOOLEAN :
          \E calls \in [1..LoopLength(chunksError, key) -> ChunkCalls] :
              AC_Request(1, chunksError, key, calls)
    \/ \E insertOk \in BOOLEAN : AN_InsertResult(1, insertOk)
    \/ \E insertOk \in BOOLEAN : AN_InsertIssues(1, insertOk)
    \/ \E updateOk \in BOOLEAN : AN_Update(1, updateOk)

SpecAnalyzeOne == InitAnalyzeOne /\ [][NextAnalyzeOne]_vars

(***************************************************************************)
(* Requests to analyze-submission for the same submission, in any          *)
(* interleaving of their storage calls.                                    *)
(***************************************************************************)
InitAnalyze ==
    /\ submissionStatus = "processing"
    /\ submission_chunks = Rows(<<Percent50, <<LetterA>>>>)
    /\ regulation_chunks = <<>>
    /\ storage = [submissions |-> <<>>, regulations |-> <<>>, large |-> {}]
    /\ regulations = {}
    /\ analysis_results = <<>>
    /\ analysis_issues = <<>>
    /\ run = [r \in Runs |-> Idle]
    /\ call = <<>>
    /\ ret = NotReturned

NextAnalyze ==
    \/ \E r \in Runs, key \in BOOLEAN,
          gw \in Gateway({ArrayOf(<<>>), ArrayOf(<<IssueError>>)}) :
            AS_Request(r, FALSE, key, gw)
    \/ \E r \in Runs, insertOk \in BOOLEAN : AN_InsertResult(r, insertOk)
    \/ \E r \in Runs, insertOk \in BOOLEAN : AN_InsertIssues(r, insertOk)
    \/ \E r \in Runs, updateOk \in BOOLEAN : AN_Update(r, updateOk)

SpecAnalyze == InitAnalyze /\ [][NextAnalyze]_vars

(***************************************************************************)
(* The rule engine alone, over short texts of the markers of the           *)
(* sterile-conflict check and over lists of percentage literals.           *)
(***************************************************************************)
MaxPieces == 3      \* rule engine: most keywords and fillers in a material text
MaxLiterals == 3    \* percentage literals in a text

\* texts of the syllables of the sterile and non-sterile markers and a letter
MarkerTexts ==
    UNION {[1..n -> {KwSterile[1], KwSterile[2], KwNonSterile1[1], KwNonSterile2[1], LetterA}]
            : n \in 0..MaxTextLen}

\* 28.9 35.3 49.7 49.8 99.4 100.5 0.1 50, as the digits before and after the point
PercentLiterals ==
    {[int |-> <<50, 56>>, frac |-> <<57>>], [int |-> <<51, 53>>, frac |-> <<51>>],
     [int |-> <<52, 57>>, frac |-> <<55>>], [int |-> <<52, 57>>, frac |-> <<56>>],
     [int |-> <<57, 57>>, frac |-> <<52>>], [int |-> <<49, 48, 48>>, frac |-> <<53>>],
     [int |-> <<48>>, frac |-> <<49>>], [int |-> <<53, 48>>, frac |-> <<>>]}

\* "28.9% 35.3% 35.3%"
RECURSIVE FormatPercent(_)
FormatPercent(literals) ==
    IF literals = <<>> THEN <<>>
    ELSE LET l == literals[1]
             one == l.int \o (IF l.frac = <<>> THEN <<>> ELSE <<46>> \o l.frac) \o <<37>>
         IN  IF Len(literals) = 1 THEN one ELSE one \o <<SP>> \o FormatPercent(Tail(literals))

\* the pieces of the material texts: the latex keywords, the allergy keyword, the
\* prohibited term, filler
MaterialPieces ==
    {KwLatex, <<ToUpper(KwLatex[1])>> \o Tail(KwLatex), KwLatexKo, KwRubber, KwAllergy,
     KwProtector, <<SP>>, <<LetterA>>}

RECURSIVE Concat(_)
Concat(pieces) == IF pieces = <<>> THEN <<>> ELSE pieces[1] \o Concat(Tail(pieces))

MaterialTexts == {Concat(ps) : ps \in UNION {[1..n -> MaterialPieces] : n \in 0..MaxPieces}}

InitRules ==
    /\ InitPure
    /\ call \in {[text |-> t, literals |-> <<>>] : t \in MarkerTexts \cup MaterialTexts}
          \cup {[text |-> FormatPercent(ls), literals |-> ls] :
                    ls \in UNION {[1..n -> PercentLiterals] : n \in 1..MaxLiterals}}

\* runRuleBasedFiltering(submissionText), the first invocation: ruleIssues is the array
\* the invocation filled, issues what it returned
RuleCall ==
    /\ ~ret.returned
    /\ \E ruleIssues \in {RuleIssuesAfter(<<>>, call.text)} :
       \E issues \in {MappedIssues(ruleIssues)} :
          ret' = [returned |-> TRUE, ruleIssues |-> ruleIssues, issues |-> issues,
                  again |-> FALSE, first |-> issues]
    /\ UNCHANGED <<dbVars, run, call>>

\* a second invocation on the same text, after the first has filled its array; first
\* keeps what the first one returned
RuleCallAgain ==
    /\ ret.returned
    /\ ~ret.again
    /\ \E ruleIssues \in {RuleIssuesAfter(ret.ruleIssues, call.text)} :
          ret' = [ret EXCEPT !.again = TRUE, !.ruleIssues = ruleIssues,
                             !.issues = MappedIssues(ruleIssues)]
    /\ UNCHANGED <<dbVars, run, call>>

NextRules == RuleCall \/ RuleCallAgain

SpecRules == InitRules /\ [][NextRules]_vars

(***************************************************************************)
(* The parsing of the model's answer alone.                                *)
(***************************************************************************)
\* the pieces of the answers: arrays of issues (one with an escape, a nested array and a
\* fraction), prose, prose with a bracket
AnswerPieces ==
    {ArrayOf(<<>>), ArrayOf(<<IssueError>>), ArrayOf(<<IssueWarning, IssueBare>>),
     ArrayOf(<<IssueCited>>), Prose, <<LBracket>> \o Prose, Prose \o <<RBracket>>, <<SP>>, Fence \o <<LF>>}

ArrayTexts == {Concat(ps) : ps \in UNION {[1..n -> AnswerPieces] : n \in 0..MaxPieces}}

InitParse ==
    /\ InitPure
    /\ call \in {[text |-> t] : t \in ArrayTexts}

\* lines 509-518 (part_003: 139-148)
ParseCall ==
    /\ ~ret.returned
    /\ \E issues \in {ParsedIssues(call.text)} :
          ret' = [returned |-> TRUE, issues |-> issues]
    /\ UNCHANGED <<dbVars, run, call>>

NextParse == ParseCall

SpecParse == InitParse /\ [][NextParse]_vars

(***************************************************************************)
(* The regulation context of the whole-document analyzer: the rows of      *)
(* regulation_chunks in the order of chunk_index, each regulation's header *)
(* before the first of its rows.                                           *)
(***************************************************************************)
MaxPerRegulation == 2      \* regulation context: most chunks of one regulation

\* lines 359-369: the metadata header of a regulation
RegulationHeader(reg) ==
    [kind |-> "header", regulation_id |-> reg.id, status |-> reg.status, chunk_index |-> 0]

\* line 371: chunk.content, named by the row it is the content of
ChunkContent(chunk) ==
    [kind |-> "content", regulation_id |-> chunk.regulation_id,
     status |-> chunk.regulations.status, chunk_index |-> chunk.chunk_index]

\* lines 357-372: what the k-th row adds to regulationTextParts
PartsOf(regulationChunks, k) ==
    LET reg == regulationChunks[k].regulations
        has == \E j \in 1..(k - 1) : regulationChunks[j].regulations.id = reg.id
    IN  (IF ~has THEN <<RegulationHeader(reg)>> ELSE <<>>)
        \o <<ChunkContent(regulationChunks[k])>>

\* lines 354-372: regulationTextParts
RECURSIVE PartsUpTo(_, _)
PartsUpTo(regulationChunks, k) ==
    IF k = 0 THEN <<>>
    ELSE PartsUpTo(regulationChunks, k - 1) \o PartsOf(regulationChunks, k)

RegulationTextParts(regulationChunks) == PartsUpTo(regulationChunks, Len(regulationChunks))

\* the rows process-regulation stored for a regulation of n chunks: chunk_index 0..n-1
RECURSIVE StoredChunks(_, _)
StoredChunks(counts, id) ==
    IF id = 0 THEN <<>>
    ELSE StoredChunks(counts, id - 1)
         \o [i \in 1..counts[id] |-> [regulation_id |-> id, chunk_index |-> i - 1]]

InitContext ==
    /\ InitPure
    /\ \E counts \in [RegIds -> 0..MaxPerRegulation] :
          call \in [regulations : [RegIds -> RegStatus],
                    chunks : {StoredChunks(counts, Cardinality(RegIds))}]

\* lines 332-377: the select of the rows and the loop over them; with regError
\* (lines 350-352, logged only) regulationChunks is null, regulationChunks?.forEach runs
\* over nothing and regulationTextParts stays empty
ContextCall(selectOk) ==
    /\ ~ret.returned
    /\ \E rows \in IF selectOk THEN AllRegulationChunks(call.chunks, call.regulations)
                   ELSE {<<>>} :
          ret' = [returned |-> TRUE, regError |-> ~selectOk, rows |-> rows,
                  parts |-> RegulationTextParts(rows)]
    /\ UNCHANGED <<dbVars, run, call>>

NextContext == \E selectOk \in BOOLEAN : ContextCall(selectOk)

SpecContext == InitContext /\ [][NextContext]_vars

(***************************************************************************)
(* process-document, the variant that generates embeddings (part_005):     *)
(* chunks.map dispatches one embedding call per chunk, Promise.all awaits  *)
(* them, the rows are inserted in one call.                                *)
(***************************************************************************)
MaxEmbedded == 3      \* embedding variant: most chunks of a document

ChunkContents == {<<LetterA>>, <<LetterB>>}

\* embeddingResult.data[0].embedding of the call whose input was content
EmbeddingOf(content) == [input |-> content]

\* JSON.stringify(chunk.embedding)
JSONStringify(embedding) == [json |-> embedding]

\* the request: isRegulation and regulationId are optional; regulation 1 is registered,
\* regulation 2 is not
InitEmbed ==
    /\ submissionStatus = "pending"
    /\ submission_chunks = <<>>
    /\ regulation_chunks = <<>>
    /\ storage = [submissions |-> <<>>, regulations |-> <<>>, large |-> {}]
    /\ regulations = {1}
    /\ analysis_results = <<>>
    /\ analysis_issues = <<>>
    /\ run = [r \in Runs |-> Idle]
    /\ ret = NotReturned
    /\ call \in [chunks : UNION {[1..n -> ChunkContents] : n \in 0..MaxEmbedded},
                 isRegulation : BOOLEAN,
                 regulationId : {NoRegulation} \cup RegIds]

EmbedStarted == "pc" \in DOMAIN ret

\* part_005 lines 164-262 (379-447): download, extraction and chunking, then chunks.map
\* starts the embedding call of every chunk
EM_Request(extracted) ==
    /\ ~EmbedStarted
    /\ IF extracted
       THEN ret' = [returned |-> FALSE, pc |-> "embedding",
                    outcome |-> [i \in 1..Len(call.chunks) |-> "pending"],
                    settled |-> <<>>, response |-> Absent]
       ELSE ret' = [returned |-> TRUE, pc |-> "done",
                    outcome |-> [i \in 1..Len(call.chunks) |-> "none"],
                    settled |-> <<>>, response |-> Response500]
    /\ UNCHANGED <<dbVars, run, call>>

\* lines 251-277 (436-462): the embedding call of chunk i returns; a response that is
\* not ok (or a failed fetch) rejects the promise of the chunk
EM_Embedding(i, ok) ==
    /\ EmbedStarted
    /\ i \in 1..Len(call.chunks)
    /\ ret.outcome[i] = "pending"
    /\ ret' = [ret EXCEPT !.outcome[i] = IF ok THEN "fulfilled" ELSE "rejected",
                          !.settled = Append(@, i)]
    /\ UNCHANGED <<dbVars, run, call>>

\* the results in the order the calls completed in
chunksWithEmbeddings_CompletionOrder(chunks, settled) ==
    [k \in 1..Len(chunks) |->
        [content |-> chunks[settled[k]], embedding |-> EmbeddingOf(chunks[settled[k]]),
         chunk_index |-> k - 1]]

\* lines 249-278 (434-463): the value Promise.all resolves to, in the order of chunks
chunksWithEmbeddings(chunks, settled) ==
    [k \in 1..Len(chunks) |->
        [content |-> chunks[k], embedding |-> EmbeddingOf(chunks[k]), chunk_index |-> k - 1]]

\* lines 282-287 (467-472): chunksToInsert of the regulation branch
regulationChunksToInsert(regulationId, withEmbeddings) ==
    [k \in 1..Len(withEmbeddings) |->
        [regulation_id |-> regulationId,
         content |-> withEmbeddings[k].content,
         embedding |-> JSONStringify(withEmbeddings[k].embedding),
         chunk_index |-> withEmbeddings[k].chunk_index]]

\* lines 296-301 (481-486): chunksToInsert of the submission branch (the model has one
\* submission, submission_id is left out)
chunksToInsert(withEmbeddings) ==
    [k \in 1..Len(withEmbeddings) |->
        [content |-> withEmbeddings[k].content,
         embedding |-> JSONStringify(withEmbeddings[k].embedding),
         chunk_index |-> withEmbeddings[k].chunk_index]]

\* lines 249, 336-347 (434, 520-531): Promise.all rejects with the first rejection, the
\* handler's catch answers 500
EM_Reject ==
    /\ EmbedStarted
    /\ ret.pc = "embedding"
    /\ \E i \in 1..Len(call.chunks) : ret.outcome[i] = "rejected"
    /\ ret' = [ret EXCEPT !.pc = "done", !.returned = TRUE, !.response = Response500]
    /\ UNCHANGED <<dbVars, run, call>>

\* lines 280-310 (465-495): every call fulfilled; the rows are inserted in one call, into
\* regulation_chunks when isRegulation && regulationId (line 281), which refuses rows of
\* a regulation that is not registered, and into submission_chunks otherwise; an
\* insertError is thrown
EM_Insert(insertOk) ==
    /\ EmbedStarted
    /\ ret.pc = "embedding"
    /\ \A i \in 1..Len(call.chunks) : ret.outcome[i] = "fulfilled"
    /\ \E withEmbeddings \in {chunksWithEmbeddings(call.chunks, ret.settled)} :
          IF call.isRegulation /\ call.regulationId # NoRegulation
          THEN \E rows \in {regulationChunksToInsert(call.regulationId, withEmbeddings)} :
                  IF insertOk /\ (rows = <<>> \/ ReferenceHolds(call.regulationId))
                  THEN /\ regulation_chunks' = regulation_chunks \o rows
                       /\ ret' = [ret EXCEPT !.pc = "done", !.returned = TRUE,
                                             !.response = [status |-> 200]]
                       /\ UNCHANGED <<submissionStatus, submission_chunks, storage,
                                      regulations, analysis_results, analysis_issues>>
                  ELSE /\ ret' = [ret EXCEPT !.pc = "done", !.returned = TRUE,
                                             !.response = Response500]
                       /\ UNCHANGED dbVars
          ELSE \E rows \in {chunksToInsert(withEmbeddings)} :
                  IF insertOk
                  THEN /\ submission_chunks' = submission_chunks \o rows
                       /\ ret' = [ret EXCEPT !.pc = "update"]
                       /\ UNCHANGED <<submissionStatus, regulation_chunks, storage,
                                      regulations, analysis_results, analysis_issues>>
                  ELSE /\ ret' = [ret EXCEPT !.pc = "done", !.returned = TRUE,
                                             !.response = Response500]
                       /\ UNCHANGED dbVars
    /\ UNCHANGED <<run, call>>

\* lines 312-334 (497-519): status 'processing'; an error is logged only
EM_Update(updateOk) ==
    /\ EmbedStarted
    /\ ret.pc = "update"
    /\ submissionStatus' = IF updateOk THEN "processing" ELSE submissionStatus
    /\ ret' = [ret EXCEPT !.pc = "done", !.returned = TRUE, !.response = [status |-> 200]]
    /\ UNCHANGED <<submission_chunks, regulation_chunks, storage, regulations, analysis_results,
                   analysis_issues, run, call>>

NextEmbed ==
    \/ \E extracted \in BOOLEAN : EM_Request(extracted)
    \/ \E i \in 1..MaxEmbedded, ok \in BOOLEAN : EM_Embedding(i, ok)
    \/ EM_Reject
    \/ \E insertOk \in BOOLEAN : EM_Insert(insertOk)
    \/ \E updateOk \in BOOLEAN : EM_Update(updateOk)

SpecEmbed == InitEmbed /\ [][NextEmbed]_vars

(***************************************************************************)
(* One submission: requests to process-document and to analyze-submission  *)
(* for it, in any order and any interleaving of their storage calls.       *)
(***************************************************************************)
\* what the gateway may answer to analyze-submission here
PipelineAnswers == {ArrayOf(<<>>), ArrayOf(<<IssueError>>)}

NextSubmission ==
    \/ \E r \in Runs, downloadOk \in BOOLEAN, key \in BOOLEAN, gw \in Gateway(FewAiTexts) :
          PD_Request(r, SubmissionPath, FALSE, NoRegulation, downloadOk, key, gw)
    \/ \E r \in Runs, updateOk \in BOOLEAN : PD_Abort(r, updateOk)
    \/ \E r \in Runs, insertOk \in BOOLEAN : PD_Insert(r, insertOk)
    \/ \E r \in Runs, updateOk \in BOOLEAN : PD_Update(r, updateOk)
    \/ \E r \in Runs, chunksError \in BOOLEAN, key \in BOOLEAN,
          gw \in Gateway(PipelineAnswers) : AS_Request(r, chunksError, key, gw)
    \/ \E r \in Runs, insertOk \in BOOLEAN : AN_InsertResult(r, insertOk)
    \/ \E r \in Runs, insertOk \in BOOLEAN : AN_InsertIssues(r, insertOk)
    \/ \E r \in Runs, updateOk \in BOOLEAN : AN_Update(r, updateOk)

\* the handlers of a submission read and write nothing of the regulations: one is
\* registered
InitSubmission == Init /\ regulations = {1}

SpecSubmission == InitSubmission /\ [][NextSubmission]_vars

(***************************************************************************)
(* The pipeline as the client runs it (handleFileSelect, part_006): the    *)
(* submission is stored as pending, process-document is invoked and        *)
(* awaited, then analyze-submission is invoked and awaited, whatever the   *)
(* first invocation answered.                                              *)
(***************************************************************************)
\* part_006 lines 82-93: functions.invoke('process-document'), its error is logged
HF_Process(downloadOk, key, gw) ==
    PD_Request(1, SubmissionPath, FALSE, NoRegulation, downloadOk, key, gw)

\* part_006 lines 97-104: functions.invoke('analyze-submission') after the first returned
HF_Analyze(chunksError, key, gw) ==
    /\ run[1].pc = "done"
    /\ AS_Request(2, chunksError, key, gw)

NextPipeline ==
    \/ \E downloadOk \in BOOLEAN, key \in BOOLEAN, gw \in Gateway(FewAiTexts) :
          HF_Process(downloadOk, key, gw)
    \/ \E updateOk \in BOOLEAN : PD_Abort(1, updateOk)
    \/ \E insertOk \in BOOLEAN : PD_Insert(1, insertOk)
    \/ \E updateOk \in BOOLEAN : PD_Update(1, updateOk)
    \/ \E chunksError \in BOOLEAN, key \in BOOLEAN, gw \in Gateway(PipelineAnswers) :
          HF_Analyze(chunksError, key, gw)
    \/ \E insertOk \in BOOLEAN : AN_InsertResult(2, insertOk)
    \/ \E insertOk \in BOOLEAN : AN_InsertIssues(2, insertOk)
    \/ \E updateOk \in BOOLEAN : AN_Update(2, updateOk)

\* every call returns: a handler that can take a step takes it
SpecPipeline == InitSubmission /\ [][NextPipeline]_vars /\ WF_vars(NextPipeline)

(***************************************************************************)
(* Properties.                                                             *)
(***************************************************************************)
NumSeverity(issues, sev) == Cardinality({i \in 1..Len(issues) : issues[i].severity = sev})

\* C1: the verdict is non_compliant iff some issue (rule-based or model-based) is an
\* error, needs_review iff none is an error and some is a warning, compliant iff
\* none is an error or a warning, whatever the counts and the order.
C1_VerdictPrecedence ==
    ret.returned =>
        LET all == ToAnalysisIssues(call.ruleIssues) \o call.aiIssues
            e == NumSeverity(all, "error")
            w == NumSeverity(all, "warning")
        IN  /\ ret.allIssues = all
            /\ (ret.overallStatus = "non_compliant") <=> (e > 0)
            /\ (ret.overallStatus = "needs_review") <=> (e = 0 /\ w > 0)
            /\ (ret.overallStatus = "compliant") <=> (e = 0 /\ w = 0)

\* one error from the model among more warnings from the rules
C1_Witness ==
    /\ ret.returned
    /\ ret.overallStatus = "non_compliant"
    /\ NumSeverity(call.aiIssues, "error") = 1
    /\ NumSeverity(call.ruleIssues, "high") = 0
    /\ NumSeverity(call.ruleIssues, "medium") > 1

\* the request has downloaded its file and gone through Steps 1 to 3
Downloaded(r) == run[r].kind = "processDocument" /\ run[r].fallback # "none"

\* C2 as stated: the fallback is invoked iff Step 1 recovered fewer than 50 characters.
C2_Original ==
    \A r \in Runs : Downloaded(r) => (run[r].fetched <=> Len(run[r].stage1) < MinTextLen)

\* C2, amended: Step 2 is entered iff Step 1 recovered fewer than 50 characters, and
\* the fallback is invoked iff moreover LOVABLE_API_KEY is configured and the file is
\* within the size the base64 encoding of line 62 can take; a text of 50 characters or
\* more never invokes it.
C2_Amended ==
    \A r \in Runs : Downloaded(r) =>
        /\ (run[r].fallback # "skipped") <=> (Len(run[r].stage1) < MinTextLen)
        /\ run[r].fetched <=>
              (Len(run[r].stage1) < MinTextLen /\ run[r].key /\ run[r].fits)

\* 49 characters recovered from the file, and the fallback invoked
C2_Witness ==
    \E r \in Runs :
        Downloaded(r) /\ Len(run[r].stage1) = MinTextLen - 1 /\ run[r].fetched

\* the fallback answered without the sentinel and with at least 50 characters after trimming
GoodAnswer(r) ==
    /\ run[r].kind = "processDocument"
    /\ run[r].fallback = "answered"
    /\ ~TestIgnoreCase(run[r].aiText, Sentinel)
    /\ Len(Trim(run[r].aiText)) >= MinTextLen

\* C3: after a good answer of the fallback the extracted text is that answer (trimmed),
\* hasTextContent is true, and the handler goes on to chunk that text.
C3_FallbackReplaces ==
    \A r \in Runs : GoodAnswer(r) =>
        /\ run[r].extractedText = Trim(run[r].aiText)
        /\ run[r].hasTextContent
        /\ run[r].pc \in {"chunk", "update", "done"}
        /\ run[r].response.status # 400
        /\ run[r].pc # "chunk" =>
            /\ Len(run[r].chunks) >= 1
            /\ NormalizeWS(Join(run[r].chunks, <<SP>>)) = NormalizeWS(run[r].aiText)

\* a good answer with blanks around it replaced a non-empty Step 1 text and was stored
C3_Witness ==
    \E r \in Runs :
        /\ GoodAnswer(r)
        /\ run[r].aiText # Trim(run[r].aiText)
        /\ run[r].stage1 # <<>>
        /\ run[r].pc = "done"
        /\ run[r].response.status = 200
        /\ submission_chunks # <<>>

\* C4: an exception or a non-OK response of the fallback call ends the request in the
\* extraction-failure response (400, hasTextContent false, 0 chunks), never in the 500
\* response, and stores no chunk.
C4_FallbackFailureCaught ==
    \A r \in Runs :
        (run[r].kind = "processDocument" /\ run[r].fallback \in {"threw", "not_ok"}) =>
            /\ run[r].pc \in {"abort", "done"}
            /\ ~run[r].hasTextContent
            /\ submission_chunks = <<>> /\ regulation_chunks = <<>>
            /\ run[r].pc = "done" =>
                /\ run[r].response.status = 400
                /\ ~run[r].response.success
                /\ ~run[r].response.hasTextContent
                /\ run[r].response.chunksProcessed = 0

\* the fallback call threw and the request has answered
C4_Witness ==
    \E r \in Runs :
        /\ run[r].kind = "processDocument"
        /\ run[r].fallback = "threw"
        /\ run[r].pc = "done"
        /\ run[r].response.status = 400

\* why Steps 1 to 3 recovered no text
FailureCause(r) ==
    CASE run[r].fallback = "no_key" -> "no fallback credential configured"
      [] run[r].fallback \in {"too_large", "threw", "not_ok"} -> "fallback call failed"
      [] run[r].fallback = "answered" /\ TestIgnoreCase(run[r].aiText, Sentinel)
            -> "fallback declared no text"
      [] run[r].fallback = "answered" /\ ~TestIgnoreCase(run[r].aiText, Sentinel)
            -> "fallback output too short"
      [] OTHER -> "none"

ExtractionFailed(r) ==
    run[r].kind = "processDocument" /\ run[r].pc = "done" /\ run[r].response.status = 400

\* C5: two requests whose extraction failed for different causes return different
\* reason strings.
C5_ReasonsDistinguishCauses ==
    \A r1, r2 \in Runs :
        (ExtractionFailed(r1) /\ ExtractionFailed(r2)
            /\ FailureCause(r1) # FailureCause(r2))
        => run[r1].response.reason # run[r2].response.reason

\* the step with which request r sends its response
Finishes(r) == run[r].pc # "done" /\ run'[r].pc = "done"

SubmissionRun(r) == run[r].kind = "processDocument" /\ ~run[r].isRegulation

\* C6: a request on a submission whose download and chunk insert succeed (it does not end
\* in the 500 response) ends with the status processing if text was extracted and failed
\* if not.
C6_Original ==
    [][\A r \in Runs :
        (Finishes(r) /\ SubmissionRun(r) /\ run'[r].response.status # 500)
        => submissionStatus' = IF run[r].hasTextContent THEN "processing" ELSE "failed"]_vars

\* C7: a request that writes the status failed answers with a non-empty reason, and a
\* submission in status failed has such an answer.
C7_FailedCarriesReason ==
    /\ \A r \in Runs :
        (run[r].kind = "processDocument"
            /\ \E i \in 1..Len(run[r].wrote) : run[r].wrote[i].status = "failed")
        => /\ run[r].response.status = 400
           /\ run[r].response.reason # ""
    /\ submissionStatus = "failed"
        => \E r \in Runs : /\ SubmissionRun(r)
                           /\ run[r].response.status = 400
                           /\ run[r].response.reason # ""

\* the submission is failed and the answer carries the reason of Step 3
C7_Witness ==
    /\ submissionStatus = "failed"
    /\ \E r \in Runs : /\ SubmissionRun(r)
                       /\ run[r].response.status = 400
                       /\ run[r].response.reason = ReasonFailed

\* the words of a text
WordCount(s) == Len(SelectSeq(Split(s), LAMBDA w : w # <<>>))

\* C8: the chunks of a text, joined by one blank and whitespace-normalized, are the
\* whitespace-normalized text; no chunk is empty after trimming and none holds more
\* than wordsPerChunk words (wordsPerChunk >= 1).
C8_ChunkRoundTrip ==
    ret.returned =>
        /\ NormalizeWS(Join(ret.chunks, <<SP>>)) = NormalizeWS(call.text)
        /\ \A k \in 1..Len(ret.chunks) :
            /\ Trim(ret.chunks[k]) # <<>>
            /\ WordCount(ret.chunks[k]) <= call.wordsPerChunk

\* a text with a leading blank and a run of blanks, cut into several chunks
C8_Witness ==
    /\ ret.returned
    /\ Len(ret.chunks) >= 2
    /\ IsWS(call.text[1])
    /\ Len(CollapseWS(call.text)) < Len(call.text)
    /\ call.wordsPerChunk >= 2

\* the chunk_index values of the rows are 0..n-1, each once
Contiguous(rows) ==
    \A k \in 0..(Len(rows) - 1) :
        Cardinality({i \in 1..Len(rows) : rows[i].chunk_index = k}) = 1

\* C9: the chunks stored for the submission, and those stored for each regulation,
\* have the indices 0..n-1 without duplicates.
C9_ContiguousIndices ==
    /\ Contiguous(submission_chunks)
    /\ \A id \in RegIds : Contiguous(ChunksOf(id))

\* the rows a process-regulation request inserts
RegRows(r) ==
    RegulationRows(run[r].regulationId,
                   [k \in 1..Len(run[r].chunks) |->
                       RegContent(run[r].chunks[k], run[r].hasTextContent)])

RegulationRun(r) == run[r].kind = "processRegulation"

\* C10: once every process-regulation request for a regulation has answered, all their
\* storage calls having succeeded, and nothing else has written the chunks of the
\* regulation, its chunks are those of one single request.
C10_ReplaceAll ==
    \A id \in RegIds :
        ( /\ \A r \in Runs : run[r].kind \in {"processDocument", "handleDelete"}
                                => run[r].regulationId # id
          /\ \A r \in Runs : (RegulationRun(r) /\ run[r].regulationId = id) =>
                /\ run[r].pc = "done"
                /\ \A i \in 1..Len(run[r].wrote) : run[r].wrote[i].ok
          /\ \E r \in Runs : /\ RegulationRun(r) /\ run[r].regulationId = id
                              /\ run[r].response.status = 200 )
        => \E r \in Runs :
            /\ RegulationRun(r) /\ run[r].regulationId = id
            /\ run[r].response.status = 200
            /\ ChunksOf(id) = RegRows(r)

\* the rows of call.chunks the nearest-neighbour query returned
Returned(i) == \E k \in 1..Len(ret.rows) : ret.rows[k].id = i

Descending(rows) ==
    \A k \in 1..(Len(rows) - 1) : rows[k].similarity >= rows[k + 1].similarity

\* C11 as stated: the query returns no chunk below the threshold, returns the chunks at
\* or above it (all of them, unless match_count cuts the result), by descending similarity.
C11_Original ==
    (ret.returned /\ ret.mode = "nearest") =>
        /\ \A k \in 1..Len(ret.rows) : ret.rows[k].similarity >= call.match_threshold
        /\ Len(ret.rows) < call.match_count =>
            \A i \in 1..Len(call.chunks) :
                call.chunks[i].similarity >= call.match_threshold => Returned(i)
        /\ Descending(ret.rows)

\* C11, amended: the lower bound is exclusive. The query returns no chunk at or below the
\* threshold, returns the chunks strictly above it (the match_count most similar ones), by
\* descending similarity.
C11_Amended ==
    (ret.returned /\ ret.mode = "nearest") =>
        /\ \A k \in 1..Len(ret.rows) :
            /\ ret.rows[k].similarity > call.match_threshold
            /\ ret.rows[k].similarity = call.chunks[ret.rows[k].id].similarity
            /\ \A j \in 1..Len(ret.rows) : ret.rows[j].id = ret.rows[k].id => j = k
        /\ Len(ret.rows) =
            Min(call.match_count,
                Cardinality({i \in 1..Len(call.chunks) :
                                call.chunks[i].similarity > call.match_threshold}))
        /\ \A i \in 1..Len(call.chunks) :
            (call.chunks[i].similarity > call.match_threshold /\ ~Returned(i))
            => \A k \in 1..Len(ret.rows) : ret.rows[k].similarity >= call.chunks[i].similarity
        /\ Descending(ret.rows)

\* of three rows stored by ascending similarity, the one at the threshold was left out,
\* though match_count had room for it, and the two above it were returned, the more
\* similar one first
C11_Witness ==
    /\ ret.returned /\ ret.mode = "nearest"
    /\ Len(call.chunks) = 3 /\ call.match_count > 2
    /\ call.chunks[1].similarity = call.match_threshold /\ ~Returned(1)
    /\ call.chunks[2].similarity > call.match_threshold
    /\ call.chunks[3].similarity > call.chunks[2].similarity
    /\ Len(ret.rows) = 2
    /\ ret.rows[1].id = 3 /\ ret.rows[2].id = 2

\* C12: in both retrieval modes every regulation chunk handed to the analyzer belongs to
\* a regulation whose status is active.
C12_OnlyActiveRegulations ==
    ret.returned =>
        \A k \in 1..Len(ret.rows) : call.regulations[ret.rows[k].regulation_id] = "active"

\* the findings of one check among the returned ones
FindingsOf(check) == SelectSeq(ret.ruleIssues, LAMBDA f : f.check = check)

\* the text holds the sterile marker outside of a non-sterile marker
HasSterileMarker(text) ==
    \E p \in 1..Len(text) :
        /\ At(text, p, KwSterile)
        /\ ~(p > 1 /\ text[p - 1] \in {KwNonSterile1[1], KwNonSterile2[1]})

HasNonSterileMarker(text) == Includes(text, KwNonSterile1) \/ Includes(text, KwNonSterile2)

\* C19: a text with both a sterile marker and a non-sterile marker gets exactly one
\* sterile-conflict finding, of severity high; a text with only one of the two markers
\* gets none.
C19_SterileConflict ==
    ret.returned =>
        LET found == FindingsOf("sterile conflict")
            sterile == HasSterileMarker(call.text)
            nonSterile == HasNonSterileMarker(call.text)
        IN  /\ (sterile /\ nonSterile) => (Len(found) = 1 /\ found[1].severity = "high")
            /\ (sterile # nonSterile) => found = <<>>

\* the value of a percentage literal, in thousandths
Thousandths(l) ==
    1000 * DigitsValue(l.int) + DigitsValue(l.frac) * Pow10(3 - Len(l.frac))

RECURSIVE ExactSum(_)
ExactSum(literals) ==
    IF literals = <<>> THEN 0 ELSE Thousandths(literals[1]) + ExactSum(Tail(literals))

\* C20: the percentage-sum check emits one medium finding iff the text has a percentage
\* literal and the sum of the literals lies outside 99.5..100.5 (bounds included), and
\* the finding carries the sum with one decimal.
C20_PercentageBand ==
    (ret.returned /\ call.literals # <<>>) =>
        LET found == FindingsOf("percentage sum")
            sum == ExactSum(call.literals)
        IN  /\ Len(found) <= 1
            /\ (found # <<>>) <=> (sum < 99500 \/ sum > 100500)
            /\ found # <<>> =>
                /\ found[1].severity = "medium"
                /\ found[1].detail = DigitsOf(sum \div 1000) \o <<46>>
                                     \o DigitsOf((sum % 1000) \div 100)

\* the per-chunk call did not deliver: its search returned an error or its request threw
CallFailed(c) == c.search = "error" \/ (c.search = "found" /\ c.gw.kind = "throw")

\* nothing else than a failed call stands in the way of the per-chunk run
OnlyCallFailures(r) ==
    /\ run[r].kind = "analyzeChunks"
    /\ \E k \in 1..Len(run[r].calls) : CallFailed(run[r].calls[k])
    /\ \A k \in 1..Len(run[r].calls) : run[r].calls[k].gw.kind # "no_text"
    /\ ~VerdictThrows(LoopIssues(run[r].calls, Len(run[r].calls)))

\* C13: in per-chunk mode a call that throws, or whose retrieval fails, does not end the
\* analysis: the run collects exactly the issues parsed from the other calls, goes on to
\* store a result, and answers 500 only if that insert fails.
C13_FailedCallSkipped ==
    \A r \in Runs :
        OnlyCallFailures(r) =>
            /\ run[r].allIssues = LoopIssues(run[r].calls, Len(run[r].calls))
            /\ run[r].pc \in {"result", "issues", "update", "done"}
            /\ run[r].pc # "result" =>
                  /\ Len(run[r].wrote) >= 1
                  /\ run[r].wrote[1].op = "insert analysis_results"
            /\ (run[r].pc = "done" /\ run[r].response.status = 500) => ~run[r].wrote[1].ok
            /\ (run[r].pc = "done" /\ run[r].response.status = 200) =>
                  \E i \in 1..Len(analysis_results) :
                        analysis_results[i].id = run[r].analysisId

\* the request was answered with success
Succeeded(r) == run[r].pc = "done" /\ run[r].response.status = 200

\* the rows of analysis_results that carry the id the request received
ResultRows(r) == {i \in 1..Len(analysis_results) : analysis_results[i].id = run[r].analysisId}

\* C14: the writes of a request come in one order: the insert of the result row, which
\* carries the verdict over all issues, then the one insert of all issues, each referencing
\* that row's id (left out when there is no issue), then the status update to completed;
\* a successful run has issued all of them and inserted exactly one result row, and the
\* status update is never issued before the result row exists.
C14_WriteOrder ==
    \A r \in Runs :
        Analyzing(r) =>
            LET w == run[r].wrote
                all == run[r].allIssues
            IN  /\ Len(w) <= 3
                /\ Len(w) >= 1 => w[1].op = "insert analysis_results"
                /\ Len(w) >= 2 =>
                      /\ w[1].ok
                      /\ w[2].op = IF Len(all) > 0 THEN "insert analysis_issues"
                                   ELSE "update submissions"
                /\ Len(w) >= 3 =>
                      w[2].op = "insert analysis_issues" /\ w[3].op = "update submissions"
                /\ \A i \in 1..Len(w) :
                      w[i].op = "update submissions" => ResultRows(r) # {}
                /\ \A i \in 1..Len(w) :
                      (w[i].op = "insert analysis_issues" /\ w[i].ok) =>
                          analysis_issues =
                              [k \in 1..Len(all) |->
                                  [analysis_result_id |-> run[r].analysisId,
                                   severity |-> all[k].severity]]
                /\ Succeeded(r) =>
                      /\ w[Len(w)].op = "update submissions"
                      /\ Len(w) = IF Len(all) > 0 THEN 3 ELSE 2
                      /\ Cardinality(ResultRows(r)) = 1
                      /\ Len(analysis_results) = 1
                      /\ analysis_results[1].overall_status = overallStatus(all)
                      /\ w[Len(w)].ok => submissionStatus = "completed"
                /\ submissionStatus = "completed" => ResultRows(r) # {}

\* a successful whole-document run that stored model and rule issues and set the status
C14_Witness ==
    \E r \in Runs :
        /\ run[r].kind = "analyze" /\ Succeeded(r)
        /\ Len(run[r].aiIssues) > 0 /\ Len(run[r].ruleBasedIssues) > 0
        /\ Len(run[r].wrote) = 3 /\ run[r].wrote[2].ok /\ run[r].wrote[3].ok
        /\ Len(analysis_issues) = Len(run[r].allIssues)
        /\ submissionStatus = "completed"

\* C15: whatever requests to analyze-submission were made for the submission, repeated or
\* overlapping, analysis_results holds at most one row for it.
C15_OneResultPerSubmission == Len(analysis_results) <= 1

\* C16: a whole-document request that meets a chunk query error, no stored chunk, a missing
\* credential or a non-OK answer of the model ends there with the 500 response, having
\* issued no write: analysis_results, analysis_issues and the submission status are as
\* they were.
C16_NoPartialResult ==
    [][\A r \in Runs :
          (/\ run[r].pc = "idle"
           /\ run'[r].kind = "analyze"
           /\ \/ run'[r].chunksError
              \/ run'[r].chunks = <<>>
              \/ ~run'[r].key
              \/ run'[r].gateway.kind = "not_ok")
          => /\ run'[r].pc = "done"
             /\ run'[r].response = Response500
             /\ run'[r].wrote = <<>>
             /\ UNCHANGED dbVars]_vars

\* a request ended by a non-OK answer of the model, with nothing stored
C16_Witness ==
    \E r \in Runs :
        /\ run[r].kind = "analyze" /\ run[r].pc = "done"
        /\ run[r].key /\ ~run[r].chunksError /\ run[r].chunks # <<>>
        /\ run[r].gateway.kind = "not_ok"
        /\ run[r].response = Response500
        /\ analysis_results = <<>> /\ analysis_issues = <<>>
        /\ submissionStatus = "processing"

\* the writes of the request to analysis_issues that failed
FailedIssueInserts(r) ==
    {i \in 1..Len(run[r].wrote) :
        run[r].wrote[i].op = "insert analysis_issues" /\ ~run[r].wrote[i].ok}

\* C17: when the insert of the issues fails, the request neither repeats it nor removes
\* the result row: the row stays, the request goes on to the status update to completed
\* (in force once that update succeeds) and answers success.
C17_IssueInsertFailureTolerated ==
    \A r \in Runs :
        (Analyzing(r) /\ FailedIssueInserts(r) # {}) =>
            LET w == run[r].wrote
            IN  /\ Cardinality({i \in 1..Len(w) : w[i].op = "insert analysis_issues"}) = 1
                /\ Cardinality(ResultRows(r)) = 1
                /\ \A i \in ResultRows(r) :
                      analysis_results[i].overall_status = run[r].overallStatus
                /\ run[r].pc \in {"update", "done"}
                /\ run[r].pc = "done" =>
                      /\ run[r].response.status = 200
                      /\ run[r].response.success
                      /\ run[r].response.analysisId = run[r].analysisId
                      /\ w[Len(w)].op = "update submissions"
                      /\ w[Len(w)].ok => submissionStatus = "completed"

\* a request whose issues the table rejected, answered with success and status completed
C17_Witness ==
    \E r \in Runs :
        /\ Analyzing(r) /\ FailedIssueInserts(r) # {}
        /\ Succeeded(r)
        /\ Len(analysis_results) = 1 /\ analysis_issues = <<>>
        /\ submissionStatus = "completed"

\* the answer of a call came with a text that holds no parseable array
Unparseable(gw) == gw.kind = "ok" /\ NoParseableArray(gw.content)

\* the request answers 500 only because the insert of the result row failed
FailsOnlyAtInsert(r) ==
    (run[r].pc = "done" /\ run[r].response.status = 500) =>
        (Len(run[r].wrote) = 1 /\ ~run[r].wrote[1].ok)

\* the verdict and the stored result row of the request come from its allIssues
VerdictFrom(r) ==
    /\ run[r].overallStatus = overallStatus(run[r].allIssues)
    /\ \A i \in ResultRows(r) : analysis_results[i].overall_status = run[r].overallStatus
    /\ Succeeded(r) => ResultRows(r) # {}

\* C18: an answer without a parseable JSON array removes only the issues of that call: the
\* request does not fail; in whole-document mode all issues are the rule-based ones, in
\* per-chunk mode those parsed from the other calls; verdict and result row follow them.
C18_UnparseableAnswerDropped ==
    \A r \in Runs :
        /\ (run[r].kind = "analyze" /\ Unparseable(run[r].gateway)) =>
              /\ run[r].pc \in {"result", "issues", "update", "done"}
              /\ run[r].aiIssues = <<>>
              /\ \E submissionText \in {SubmissionText(run[r].chunks)} :
                    run[r].ruleBasedIssues = runRuleBasedFiltering(submissionText)
              /\ run[r].allIssues = run[r].ruleBasedIssues
              /\ VerdictFrom(r)
              /\ FailsOnlyAtInsert(r)
        /\ (/\ run[r].kind = "analyzeChunks"
            /\ \E k \in 1..Len(run[r].calls) :
                  run[r].calls[k].search = "found" /\ Unparseable(run[r].calls[k].gw)
            /\ \A k \in 1..Len(run[r].calls) :
                  ~(run[r].calls[k].search = "found"
                    /\ run[r].calls[k].gw.kind \in {"throw", "no_text"})
            /\ ~VerdictThrows(LoopIssues(run[r].calls, Len(run[r].calls)))) =>
              /\ run[r].pc \in {"result", "issues", "update", "done"}
              /\ run[r].allIssues = LoopIssues(run[r].calls, Len(run[r].calls))
              /\ VerdictFrom(r)
              /\ FailsOnlyAtInsert(r)

\* a whole-document request whose answer held two arrays in one text: the bracketed part
\* does not parse, the rule-based issues were stored and the request succeeded
C18_Witness ==
    \E r \in Runs :
        /\ run[r].kind = "analyze" /\ Succeeded(r)
        /\ JsonMatch(run[r].gateway.content).matched
        /\ Unparseable(run[r].gateway)
        /\ Len(run[r].ruleBasedIssues) > 0
        /\ Len(analysis_issues) = Len(run[r].ruleBasedIssues)
        /\ Len(analysis_results) = 1

\* the findings of one check among the issues runRuleBasedFiltering returned
IssuesOf(title) == SelectSeq(ret.issues, LAMBDA f : f.title = title)

\* latex, rubber latex (in any case) or the Korean word for latex
HasLatexKeyword(text) == TestIgnoreCase(text, KwLatex) \/ Includes(text, KwLatexKo)

\* C21: a text with a latex keyword and without the allergy keyword gets the latex-allergy
\* finding, of severity error; a text with the allergy keyword gets none.
C21_LatexAllergy ==
    ret.returned =>
        LET found == IssuesOf("latex allergy warning")
        IN  /\ (HasLatexKeyword(call.text) /\ ~Includes(call.text, KwAllergy)) =>
                  (Len(found) = 1 /\ found[1].severity = "error")
            /\ Includes(call.text, KwAllergy) => found = <<>>

\* the place of a finding's check in the order of the five checks
CheckOrder(title) ==
    CASE title = "sterile conflict" -> 1
      [] title = "unit mismatch" -> 2
      [] title \in {"latex allergy warning", "menthol CAS number", "percentage sum",
                    "contact information", "brand name", "additive purpose",
                    "generic name", "standard"} -> 3
      [] title \in {"repeated confirmation", "single use"} -> 4
      [] title = "prohibited term" -> 5

\* the returned findings of the n-th check
IssuesOfCheck(n) == SelectSeq(ret.ruleIssues, LAMBDA f : CheckOrder(f.check) = n)

WellFormedArrays(text) ==
    {pq \in (1..Len(text)) \X (1..Len(text)) :
        /\ pq[1] < pq[2]
        /\ text[pq[1]] = LBracket
        /\ text[pq[2]] = RBracket
        /\ ~JsonParse(SubSeq(text, pq[1], pq[2])).threw}

\* the first of them: the leftmost start, and the nearest end for that start
FirstArray(text) ==
    LET arrays == WellFormedArrays(text)
        p == SetMin({pq[1] : pq \in arrays})
        q == SetMin({pq[2] : pq \in {a \in arrays : a[1] = p}})
    IN  SubSeq(text, p, q)

\* C23: when the answer holds a well-formed array, the parser returns the issues of the
\* first one, whatever text (brackets included) stands before or after it.
C23_FirstBalancedArray ==
    (ret.returned /\ WellFormedArrays(call.text) # {}) =>
        ret.issues = JsonParse(FirstArray(call.text)).issues

\* the regulation named by the nearest header before part k (0: no header before it)
HeaderBefore(parts, k) ==
    LET headers == {j \in 1..(k - 1) : parts[j].kind = "header"}
    IN  IF headers = {} THEN 0 ELSE parts[SetMax(headers)].regulation_id

\* C24: in the regulation context each regulation with a chunk has its header exactly
\* once, and every chunk stands under the header of its own regulation: the nearest
\* header before it names the regulation the chunk belongs to.
C24_ChunksUnderOwnHeader ==
    ret.returned =>
        /\ \A id \in {ret.rows[k].regulation_id : k \in 1..Len(ret.rows)} :
              Cardinality({j \in 1..Len(ret.parts) :
                  ret.parts[j].kind = "header" /\ ret.parts[j].regulation_id = id}) = 1
        /\ \A k \in 1..Len(ret.parts) :
              ret.parts[k].kind = "content" =>
                  HeaderBefore(ret.parts, k) = ret.parts[k].regulation_id

\* the rows the embedding variant stored
StoredEmbedded == submission_chunks \o regulation_chunks

\* C25: when the embedding call of one chunk has failed, the run still stores the other
\* chunks, those whose embedding call succeeded, with their embeddings.
C25_IndependentEmbeddings ==
    (EmbedStarted /\ ret.returned /\ ret.pc = "done"
        /\ \E i \in 1..Len(call.chunks) : ret.outcome[i] = "rejected") =>
        \A i \in 1..Len(call.chunks) :
            ret.outcome[i] = "fulfilled" =>
                \E k \in 1..Len(StoredEmbedded) :
                    /\ StoredEmbedded[k].chunk_index = i - 1
                    /\ StoredEmbedded[k].embedding = JSONStringify(EmbeddingOf(call.chunks[i]))

\* C26: whatever order the embedding calls complete in, every stored row pairs chunk_index
\* i with the content of the i-th chunk and with the embedding computed from that content.
C26_IndexContentEmbedding ==
    EmbedStarted =>
        \A k \in 1..Len(StoredEmbedded) :
            LET row == StoredEmbedded[k]
            IN  /\ row.chunk_index \in 0..(Len(call.chunks) - 1)
                /\ row.content = call.chunks[row.chunk_index + 1]
                /\ row.embedding = JSONStringify(EmbeddingOf(call.chunks[row.chunk_index + 1]))

\* rows of two chunks of different content are stored, and the call of the second chunk
\* completed before the call of the first
C26_Witness ==
    /\ EmbedStarted
    /\ Len(StoredEmbedded) >= 2
    /\ call.chunks[1] # call.chunks[2]
    /\ ret.settled[1] = 2

\* C27: in every state, a submission of status completed has an analysis result row.
C27_CompletedHasResult ==
    submissionStatus = "completed" => Len(analysis_results) >= 1

\* an analyze request stored its result and set the status to completed
C27_Witness ==
    /\ submissionStatus = "completed"
    /\ \E r \in Runs :
          /\ run[r].kind = "analyze"
          /\ run[r].pc = "done"
          /\ run[r].analysisId > 0

\* the text a process-document run recovered: the literal text of the file, or the
\* trimmed answer of the fallback
Recovered(r) == IF NeedsFallback(run[r].stage1) THEN Trim(run[r].aiText) ELSE run[r].stage1

\* the index and the content of rows of regulation_chunks
PlainRows(rows) ==
    [k \in 1..Len(rows) |-> [chunk_index |-> rows[k].chunk_index, content |-> rows[k].content]]

\* C28: a submission of status processing has a stored chunk; the stored chunks are the
\* chunks of a recovered text of at least 50 characters; a run that recovered no usable
\* text has stored no row.
C28_ChunksFromText ==
    /\ submissionStatus = "processing" => Len(submission_chunks) >= 1
    /\ (submission_chunks # <<>> \/ regulation_chunks # <<>>) =>
          /\ run[1].pc \in {"update", "done"}
          /\ Len(Recovered(1)) >= MinTextLen
          /\ submission_chunks \o PlainRows(regulation_chunks) =
                Rows(chunkText(Recovered(1), WordsPerChunk))
    /\ (run[1].pc = "done" /\ ~run[1].hasTextContent) =>
          (submission_chunks = <<>> /\ regulation_chunks = <<>>)

\* the run recovered its text from the fallback, stored its chunks and set the status
C28_Witness ==
    /\ submissionStatus = "processing"
    /\ run[1].pc = "done"
    /\ run[1].fallback = "answered"
    /\ Len(submission_chunks) >= 1

\* the rows of analysis_issues that reference a result row
StoredIssues(id) == SelectSeq(analysis_issues, LAMBDA row : row.analysis_result_id = id)

\* C29: once a request has ended, the verdict stored in each result row is the verdict of
\* the issues stored for that row, also when the insert of the issues failed.
C29_VerdictMatchesStoredIssues ==
    (\A r \in Runs : run[r].pc \in {"idle", "done"}) =>
        \A i \in 1..Len(analysis_results) :
            analysis_results[i].overall_status =
                overallStatus(StoredIssues(analysis_results[i].id))

\* both invocations of the client have returned
PipelineEnded == run[1].pc = "done" /\ run[2].pc = "done"

\* C30: every pipeline execution ends, and when it has ended the submission is completed
\* or failed, never still pending or processing.
C30_EndsTerminal ==
    /\ <>PipelineEnded
    /\ [](PipelineEnded => submissionStatus \in {"completed", "failed"})

====
